---- MODULE Spec2Model ----
(***************************************************************************)
(* CodeGateway detection engine: the Analyzer orchestrator                 *)
(* (packages/core/src/analyzer.ts), the shared helpers it calls            *)
(* (detectLanguage, matchesGlob, compareSeverity, meetsSeverityThreshold,  *)
(* toDetectorSettings) and the four built-in detectors as far as the       *)
(* orchestrator observes them.                                             *)
(*                                                                         *)
(* A file path is a sequence of tokens: "/" and "." are the separators,    *)
(* every other token is a maximal run of characters without "/" or ".".    *)
(* A glob is a sequence of the same tokens plus "*" and "**".              *)
(* A source text is represented by what the detectors read from it: the    *)
(* variable declarations the naming detector walks, the findings each of   *)
(* the other detectors makes, and the detectors whose walk throws.         *)
(*                                                                         *)
(* Spec is the orchestrator with the detectors as it observes them.        *)
(* DetectorSpec is one instance of each detector class called directly,    *)
(* with the checks of errorHandling.ts, codeQuality.ts and the naming      *)
(* detector translated one by one; there a line of the text and a string   *)
(* literal are sequences of characters.                                    *)
(*                                                                         *)
(* SummarizeSpec is Analyzer.summarize on a list of results.  PanelSpec is *)
(* the checkpoint panel of the extension with the script of its webview,   *)
(* PanelLiveSpec the same with posted messages delivered.  DiffSpec is     *)
(* getModifiedLineRanges on a parsed diff, HookSpec GitService.installHook *)
(* and uninstallHook on one hook file, FileSpec the FileAnalyzer of the    *)
(* extension on one document.                                              *)
(***************************************************************************)
EXTENDS Integers, Sequences, FiniteSets, TLC

VARIABLES
    config,      \* Analyzer.config (this.config)
    namingSets,  \* NamingPatternDetector's cached sets (instance fields)
    calls,       \* the analyzeFile calls of the callers, one per slot
    project,     \* each detector's ts-morph Project: the paths with an entry
    run,         \* the detector analyze call that is executing, or the last
    clock,       \* Date.now()
    analysisResults,
                 \* the list of results a caller passes to summarize
    summary,
                 \* what summarize returned, and for which list
    currentPanel,
                 \* CheckpointPanel.currentPanel: checkpoint and resolvePromise
    promises,
                 \* the promises createOrShow has returned, in order
    webview,
                 \* the document of the panel: checkboxes and Proceed button
    posted,
                 \* the message the webview has posted and the panel has not handled
    gitDiff,
                 \* the hunks of the GitFileDiff passed to getModifiedLineRanges
    lineRanges,
                 \* the ranges getModifiedLineRanges returned
    hookFile,
                 \* the file .git/hooks/<hookName>
    hookCall,
                 \* the installHook or uninstallHook call that is executing
    hookHistory,
                 \* the hook file before the first call, and the calls completed
    debounceTimers,
                 \* FileAnalyzer.debounceTimers for the URI of the document
    analysisCache,
                 \* FileAnalyzer.analysisCache for the URI of the document
    diagnostics,
                 \* the diagnostics published for the document
    timers,
                 \* the timers setTimeout has returned, in order: pending, cleared or fired
    analyses,
                 \* the doAnalyze calls of the document in the order they started
    fileHistory
                 \* whether clearAnalysis or dispose was called, and what was scheduled since

vars ==
    <<config, namingSets, calls, project, run, clock,
      analysisResults, summary,
      currentPanel, promises, webview, posted,
      gitDiff, lineRanges,
      hookFile, hookCall, hookHistory,
      debounceTimers, analysisCache, diagnostics, timers, analyses, fileHistory>>

\* What a walk through one detector's analyze reads and writes besides the
\* naming sets.
detectorVars == <<project, run, clock>>

\* The variables of each further component, and its state before it is used.
summaryVars == <<analysisResults, summary>>

SummaryIdle ==
    /\ analysisResults = <<>>
    /\ summary = [returned |-> FALSE]

panelVars == <<currentPanel, promises, webview, posted>>

PanelIdle ==
    /\ currentPanel = [open |-> FALSE]
    /\ promises = <<>>
    /\ webview = [checkboxes |-> <<>>, criticalCount |-> 0, disabled |-> TRUE]
    /\ posted = [type |-> "none"]

diffVars == <<gitDiff, lineRanges>>

DiffIdle ==
    /\ gitDiff = <<>>
    /\ lineRanges = [returned |-> FALSE]

hookVars == <<hookFile, hookCall, hookHistory>>

HookIdle ==
    /\ hookFile = [exists |-> FALSE]
    /\ hookCall = [op |-> "none"]
    /\ hookHistory = [original |-> [exists |-> FALSE], installs |-> 0, uninstalls |-> 0]

fileVars == <<debounceTimers, analysisCache, diagnostics, timers, analyses, fileHistory>>

FileIdle ==
    /\ debounceTimers = [set |-> FALSE]
    /\ analysisCache = [set |-> FALSE]
    /\ diagnostics = [set |-> FALSE]
    /\ timers = <<>>
    /\ analyses = <<>>
    /\ fileHistory = [cleared |-> FALSE, since |-> FALSE, disposed |-> FALSE]

componentVars == <<summaryVars, panelVars, diffVars, hookVars, fileVars>>

analysisVars == <<config, namingSets, calls, detectorVars>>

\* What the actions of Analyzer.summarize leave alone.
besidesSummary ==
    <<analysisVars,
      panelVars,
      diffVars,
      hookVars,
      fileVars>>

BesidesSummaryIdle ==
    /\ PanelIdle
    /\ DiffIdle
    /\ HookIdle
    /\ FileIdle

\* What the actions of the checkpoint panel leave alone.
besidesPanel ==
    <<analysisVars,
      summaryVars,
      diffVars,
      hookVars,
      fileVars>>

BesidesPanelIdle ==
    /\ SummaryIdle
    /\ DiffIdle
    /\ HookIdle
    /\ FileIdle

\* What the actions of getModifiedLineRanges leave alone.
besidesDiff ==
    <<analysisVars,
      summaryVars,
      panelVars,
      hookVars,
      fileVars>>

BesidesDiffIdle ==
    /\ SummaryIdle
    /\ PanelIdle
    /\ HookIdle
    /\ FileIdle

\* What the actions of GitService.installHook and uninstallHook leave alone.
besidesHook ==
    <<analysisVars,
      summaryVars,
      panelVars,
      diffVars,
      fileVars>>

BesidesHookIdle ==
    /\ SummaryIdle
    /\ PanelIdle
    /\ DiffIdle
    /\ FileIdle

\* What the actions of the FileAnalyzer of the extension leave alone.
besidesFile ==
    <<analysisVars,
      summaryVars,
      panelVars,
      diffVars,
      hookVars>>

BesidesFileIdle ==
    /\ SummaryIdle
    /\ PanelIdle
    /\ DiffIdle
    /\ HookIdle

\* Number of analyzeFile calls that can be in flight at once (analyzeFiles
\* starts one per file before any of them resumes).
NumCalls == 2

Slots == 1..NumCalls

-----------------------------------------------------------------------------
(* Severity model                                                          *)

Severities == {"info", "warning", "critical"}

SeverityOrder == [info |-> 0, warning |-> 1, critical |-> 2]

compareSeverity(a, b) == SeverityOrder[b] - SeverityOrder[a]

\* A threshold check that also drops the severity equal to the threshold.
meetsSeverityThresholdStrict(severity, minSeverity) ==
    SeverityOrder[severity] > SeverityOrder[minSeverity]

meetsSeverityThreshold(severity, minSeverity) ==
    SeverityOrder[severity] >= SeverityOrder[minSeverity]

-----------------------------------------------------------------------------
(* Languages and paths                                                     *)

NoLanguage == "null"

EXTENSION_TO_LANGUAGE ==
    [ts |-> "typescript", tsx |-> "typescript", js |-> "javascript",
     jsx |-> "javascript", mjs |-> "javascript", cjs |-> "javascript",
     py |-> "python", rs |-> "rust", go |-> "go", java |-> "java",
     cs |-> "csharp"]

\* Index of the last "." token of a path, 0 when there is none.
LastDot(filePath) ==
    LET dots == {i \in 1..Len(filePath) : filePath[i] = "."}
    IN  IF dots = {} THEN 0 ELSE CHOOSE i \in dots : \A j \in dots : j <= i

\* '.' + filePath.split('.').pop(), looked up in EXTENSION_TO_LANGUAGE: the
\* text after the last "." (the whole path when it has no ".") has to be one
\* of the known extensions.
detectLanguage(filePath) ==
    LET ext == SubSeq(filePath, LastDot(filePath) + 1, Len(filePath))
    IN  IF Len(ext) = 1 /\ ext[1] \in DOMAIN EXTENSION_TO_LANGUAGE
        THEN EXTENSION_TO_LANGUAGE[ext[1]]
        ELSE NoLanguage

\* globToRegex followed by RegExp.test: "**" becomes .*, "*" becomes [^/]*,
\* everything else is literal, and the expression is anchored at both ends.
RECURSIVE globToRegex(_, _)
globToRegex(glob, filePath) ==
    IF glob = <<>> THEN filePath = <<>>
    ELSE IF Head(glob) = "**" THEN
        \E k \in 0..Len(filePath) :
            globToRegex(Tail(glob), SubSeq(filePath, k + 1, Len(filePath)))
    ELSE IF Head(glob) = "*" THEN
        \E k \in 0..Len(filePath) :
            /\ \A i \in 1..k : filePath[i] # "/"
            /\ globToRegex(Tail(glob), SubSeq(filePath, k + 1, Len(filePath)))
    ELSE /\ filePath # <<>>
         /\ Head(filePath) = Head(glob)
         /\ globToRegex(Tail(glob), Tail(filePath))

matchesGlob(filePath, patterns) ==
    \E pattern \in patterns : globToRegex(pattern, filePath)

\* The globs tried against the file name only, not the whole path.
shouldExcludeFileName(filePath, cfg) ==
    LET slashes == {i \in 1..Len(filePath) : filePath[i] = "/"}
        last == IF slashes = {} THEN 0
                ELSE CHOOSE i \in slashes : \A j \in slashes : j <= i
    IN  matchesGlob(SubSeq(filePath, last + 1, Len(filePath)), cfg.exclude)

shouldExcludeFile(filePath, cfg) == matchesGlob(filePath, cfg.exclude)

-----------------------------------------------------------------------------
(* Pattern types and configuration                                         *)

ALL_PATTERN_TYPES ==
    {"generic_variable_name", "inconsistent_naming",
     "empty_catch_block", "swallowed_error", "missing_error_boundary",
     "generic_error_message", "try_without_catch",
     "hardcoded_secret", "sql_concatenation", "unsafe_eval",
     "insecure_random", "missing_input_validation",
     "copy_paste_pattern", "magic_number", "todo_without_context",
     "commented_out_code", "overly_complex_function",
     "placeholder_implementation", "incomplete_edge_case",
     "mock_data_in_production", "framework_version_mismatch",
     "unnecessary_abstraction", "context_mismatch"}

Absent == [k \in {} |-> "info"]

DEFAULT_CONFIG ==
    [enabledPatterns |-> ALL_PATTERN_TYPES,
     minSeverity |-> "info",
     severityOverrides |-> Absent,
     exclude |-> {<<"**", "/", "node_modules", "/", "**">>,
                  <<"**", "/", "dist", "/", "**">>,
                  <<"**", "/", "build", "/", "**">>,
                  <<"**", "/", ".", "git", "/", "**">>,
                  <<"**", "/", "*", ".", "min", ".", "js">>,
                  <<"**", "/", "*", ".", "bundle", ".", "js">>},
     genericVariableNames |-> {},
     loopVariableNames |-> {},
     coordinateVariableNames |-> {},
     genericErrorMessages |-> {},
     secretPatterns |-> {}]

ConfigFields == DOMAIN DEFAULT_CONFIG

\* { ...base, ...partial }: the fields the partial has replace the base's.
Merge(base, partial) ==
    [f \in ConfigFields |->
        IF f \in DOMAIN partial THEN partial[f] ELSE base[f]]

toDetectorSettings(cfg) ==
    [genericVariableNames |-> cfg.genericVariableNames,
     loopVariableNames |-> cfg.loopVariableNames,
     coordinateVariableNames |-> cfg.coordinateVariableNames,
     genericErrorMessages |-> cfg.genericErrorMessages,
     secretPatterns |-> cfg.secretPatterns]

-----------------------------------------------------------------------------
(* Identifier names: sequences of characters                               *)

LowerCase == <<"a", "b", "c", "d", "e", "f", "g", "h", "i", "j", "k", "l", "m",
               "n", "o", "p", "q", "r", "s", "t", "u", "v", "w", "x", "y", "z">>

UpperCase == <<"A", "B", "C", "D", "E", "F", "G", "H", "I", "J", "K", "L", "M",
               "N", "O", "P", "Q", "R", "S", "T", "U", "V", "W", "X", "Y", "Z">>

Digits == {"0", "1", "2", "3", "4", "5", "6", "7", "8", "9"}

Range(f) == {f[i] : i \in DOMAIN f}

\* The lower-case and the upper-case form of every letter.
ToLowerChar == [ch \in Range(UpperCase) |->
                 LowerCase[CHOOSE k \in 1..Len(UpperCase) : UpperCase[k] = ch]]

ToUpperChar == [ch \in Range(LowerCase) |->
                 UpperCase[CHOOSE k \in 1..Len(LowerCase) : LowerCase[k] = ch]]

toLowerCase(name) ==
    [i \in 1..Len(name) |->
        IF name[i] \in DOMAIN ToLowerChar THEN ToLowerChar[name[i]]
        ELSE name[i]]

toUpperCase(name) ==
    [i \in 1..Len(name) |->
        IF name[i] \in DOMAIN ToUpperChar THEN ToUpperChar[name[i]]
        ELSE name[i]]

DEFAULT_GENERIC_VARIABLE_NAMES ==
    {<<"d", "a", "t", "a">>, <<"r", "e", "s", "u", "l", "t">>,
     <<"r", "e", "s", "u", "l", "t", "s">>,
     <<"r", "e", "s", "p", "o", "n", "s", "e">>, <<"r", "e", "s">>,
     <<"r", "e", "s", "p">>, <<"v", "a", "l", "u", "e">>, <<"v", "a", "l">>,
     <<"i", "t", "e", "m">>, <<"i", "t", "e", "m", "s">>,
     <<"e", "l", "e", "m", "e", "n", "t">>, <<"e", "l", "e", "m">>,
     <<"t", "e", "m", "p">>, <<"t", "m", "p">>, <<"f", "o", "o">>,
     <<"b", "a", "r">>, <<"b", "a", "z">>, <<"o", "b", "j">>,
     <<"o", "b", "j", "e", "c", "t">>, <<"t", "h", "i", "n", "g">>,
     <<"s", "t", "u", "f", "f">>, <<"a", "r", "r">>,
     <<"a", "r", "r", "a", "y">>, <<"l", "i", "s", "t">>, <<"s", "t", "r">>,
     <<"s", "t", "r", "i", "n", "g">>, <<"n", "u", "m">>,
     <<"n", "u", "m", "b", "e", "r">>, <<"r", "e", "t">>,
     <<"r", "e", "t", "u", "r", "n">>, <<"o", "u", "t", "p", "u", "t">>,
     <<"o", "u", "t">>}

DEFAULT_LOOP_VARIABLE_NAMES == {<<"i">>, <<"j">>, <<"k">>, <<"n">>, <<"m">>}

DEFAULT_COORDINATE_VARIABLE_NAMES == {<<"x">>, <<"y">>, <<"z">>, <<"w">>}

-----------------------------------------------------------------------------
(* Pattern records                                                         *)

\* BaseDetector.createPattern, the fields the orchestrator and its callers
\* read (the id and the time stamp are left out).
createPattern(detectorId, type, startLine, severity) ==
    [type |-> type, severity |-> severity, startLine |-> startLine,
     detectorId |-> detectorId]

\* What a detector's promise settles to.
Fulfilled(patterns) == [ok |-> TRUE, patterns |-> patterns]
Rejected == [ok |-> FALSE, patterns |-> <<>>]

-----------------------------------------------------------------------------
(* NamingPatternDetector                                                   *)

\* The sets are rebuilt from the defaults and the settings of the call; the
\* previous sets of the instance are overwritten.
\* The instance fields before the constructor has called initializeSets.
UnsetSets ==
    [genericVariableNames |-> {}, loopVariableNames |-> {},
     coordinateVariableNames |-> {}]

\* Sets that are added to instead of being rebuilt.
initializeSetsAccumulating(sets, settings) ==
    [genericVariableNames |->
        sets.genericVariableNames \cup DEFAULT_GENERIC_VARIABLE_NAMES
            \cup {toLowerCase(s) : s \in settings.genericVariableNames},
     loopVariableNames |->
        sets.loopVariableNames \cup DEFAULT_LOOP_VARIABLE_NAMES
            \cup settings.loopVariableNames,
     coordinateVariableNames |->
        sets.coordinateVariableNames \cup DEFAULT_COORDINATE_VARIABLE_NAMES
            \cup settings.coordinateVariableNames]

initializeSets(sets, settings) ==
    [genericVariableNames |->
        DEFAULT_GENERIC_VARIABLE_NAMES
            \cup {toLowerCase(s) : s \in settings.genericVariableNames},
     loopVariableNames |->
        DEFAULT_LOOP_VARIABLE_NAMES \cup settings.loopVariableNames,
     coordinateVariableNames |->
        DEFAULT_COORDINATE_VARIABLE_NAMES \cup settings.coordinateVariableNames]

NoSettings ==
    [genericVariableNames |-> {}, loopVariableNames |-> {},
     coordinateVariableNames |-> {}, genericErrorMessages |-> {},
     secretPatterns |-> {}]

\* A test of the list of generic names that does not fold the case.
isGenericNameCaseSensitive(sets, name) ==
    \/ name \in sets.genericVariableNames
    \/ /\ Len(name) = 1
       /\ name \notin sets.loopVariableNames
       /\ name \notin sets.coordinateVariableNames

isGenericName(sets, name) ==
    \/ toLowerCase(name) \in sets.genericVariableNames
    \/ /\ Len(name) = 1
       /\ name \notin sets.loopVariableNames
       /\ name \notin sets.coordinateVariableNames

\* node.ancestors: which of the kinds isAcceptableContext asks for are among
\* the ancestors of the declaration; "callback" stands for an arrow function
\* inside a call of map/filter/forEach/reduce/find/some/every.
isAcceptableContext(sets, node, name) ==
    \/ name \in sets.loopVariableNames /\ "for" \in node.ancestors
    \/ name \in sets.coordinateVariableNames
    \/ /\ "catch" \in node.ancestors
       /\ toLowerCase(name) \in {<<"e">>, <<"e", "r", "r">>,
                                 <<"e", "r", "r", "o", "r">>}
    \/ "arrayBinding" \in node.ancestors /\ Len(name) = 1
    \/ "callback" \in node.ancestors

Letters == Range(LowerCase) \cup Range(UpperCase)

detectNamingConvention(name) ==
    LET rest  == \A i \in 2..Len(name) : name[i] \in Letters \cup Digits
    IN  IF "_" \in Range(name) /\ name = toLowerCase(name) THEN "snake_case"
        ELSE IF "_" \in Range(name) /\ name = toUpperCase(name)
            THEN "SCREAMING_SNAKE_CASE"
        ELSE IF /\ Len(name) >= 1 /\ name[1] \in Range(LowerCase) /\ rest
                /\ name # toLowerCase(name) THEN "camelCase"
        ELSE IF Len(name) >= 1 /\ name[1] \in Range(UpperCase) /\ rest
            THEN "PascalCase"
        ELSE "unknown"

\* analyzeVariableDeclarations (kind "var") and analyzeFunctionParameters
\* (kind "param"): one warning per generic name outside the exceptions.
analyzeDeclarations(sets, decls, kind) ==
    LET Reported(d) == /\ d.kind = kind
                       /\ isGenericName(sets, d.name)
                       /\ ~isAcceptableContext(sets, d, d.name)
        hits == SelectSeq(decls, Reported)
    IN  [i \in 1..Len(hits) |->
            createPattern("naming", "generic_variable_name", hits[i].line,
                          "warning")]

analyzeNamingConsistency(decls) ==
    LET IsVar(d) == d.kind = "var"
        identifiers == SelectSeq(decls, IsVar)
        idx == 1..Len(identifiers)
        conv == [i \in idx |-> detectNamingConvention(identifiers[i].name)]
        conventions == Range(conv) \ {"unknown"}
        conventionCounts ==
            [c \in conventions |-> Cardinality({i \in idx : conv[i] = c})]
        first == [c \in conventions |->
                    CHOOSE i \in idx :
                        conv[i] = c /\ \A j \in idx : conv[j] = c => i <= j]
        dominantConvention ==
            CHOOSE c \in conventions : \A d \in conventions :
                \/ conventionCounts[c] > conventionCounts[d]
                \/ /\ conventionCounts[c] = conventionCounts[d]
                   /\ first[c] <= first[d]
        hits == {i \in idx : conv[i] \notin {"unknown", dominantConvention}}
        Minority(i) == i \in hits
        lines == [i \in idx |-> identifiers[i].line]
        flagged == SelectSeq([i \in idx |-> i], Minority)
    IN  IF Cardinality(conventions) > 1
        THEN [k \in 1..Len(flagged) |->
                createPattern("naming", "inconsistent_naming",
                              lines[flagged[k]], "info")]
        ELSE <<>>

\* NamingPatternDetector.analyze after initializeSets has run.
NamingAnalyze(sets, content) ==
    IF "naming" \in content.throws THEN Rejected
    ELSE Fulfilled(analyzeDeclarations(sets, content.decls, "var")
                   \o analyzeDeclarations(sets, content.decls, "param")
                   \o analyzeNamingConsistency(content.decls))

-----------------------------------------------------------------------------
(* ErrorHandlingDetector, SecurityDetector, CodeQualityDetector            *)

Findings(detectorId, raw) ==
    [i \in 1..Len(raw) |->
        createPattern(detectorId, raw[i].type, raw[i].line, raw[i].severity)]

ErrorHandlingAnalyze(content) ==
    IF "error_handling" \in content.throws THEN Rejected
    ELSE Fulfilled(Findings("error_handling", content.errorHandling))

EndsWith(filePath, suffix) ==
    /\ Len(filePath) >= Len(suffix)
    /\ SubSeq(filePath, Len(filePath) - Len(suffix) + 1, Len(filePath)) = suffix

Contains(filePath, part) ==
    \E k \in 0..(Len(filePath) - Len(part)) :
        SubSeq(filePath, k + 1, k + Len(part)) = part

\* SecurityDetector.shouldSkipFile: test, spec, config, example and sample
\* files.
shouldSkipFile(filePath) ==
    \/ \E e \in {"ts", "js", "tsx", "jsx"} :
        \/ EndsWith(filePath, <<".", "test", ".", e>>)
        \/ EndsWith(filePath, <<".", "spec", ".", e>>)
    \/ "__tests__" \in Range(filePath)
    \/ \E e \in {"ts", "js"} : EndsWith(filePath, <<".", "config", ".", e>>)
    \/ Contains(filePath, <<".", "example", ".">>)
    \/ Contains(filePath, <<".", "sample", ".">>)

SecurityAnalyze(content, filePath) ==
    IF shouldSkipFile(filePath) THEN Fulfilled(<<>>)
    ELSE IF "security" \in content.throws THEN Rejected
    ELSE Fulfilled(Findings("security", content.security))

CodeQualityAnalyze(content) ==
    IF "code_quality" \in content.throws THEN Rejected
    ELSE Fulfilled(Findings("code_quality", content.codeQuality))

-----------------------------------------------------------------------------
(* Analyzer                                                                *)

\* Analyzer.initializeDetectors: this.detectors, in registration order.
Detectors == <<"naming", "error_handling", "security", "code_quality">>

NamingPatterns == {"generic_variable_name", "inconsistent_naming"}

ErrorHandlingPatterns ==
    {"empty_catch_block", "swallowed_error", "missing_error_boundary",
     "generic_error_message", "try_without_catch"}

SecurityPatterns ==
    {"hardcoded_secret", "sql_concatenation", "unsafe_eval", "insecure_random"}

CodeQualityPatterns ==
    {"magic_number", "todo_without_context", "commented_out_code",
     "overly_complex_function", "placeholder_implementation"}

\* detector.patterns
DetectorPatterns ==
    [naming |-> NamingPatterns, error_handling |-> ErrorHandlingPatterns,
     security |-> SecurityPatterns, code_quality |-> CodeQualityPatterns]

\* detector.languages: the same list in each of the four classes.
DetectorLanguages ==
    [d \in Range(Detectors) |-> {"typescript", "javascript"}]

\* The filter callback of getApplicableDetectors for one detector.
isApplicable(detector, language, options, cfg) ==
    IF language # NoLanguage /\ language \notin DetectorLanguages[detector]
    THEN FALSE
    ELSE \E p \in DetectorPatterns[detector] :
            /\ "patternTypes" \in DOMAIN options => p \in options.patternTypes
            /\ p \in cfg.enabledPatterns

getApplicableDetectors(language, options, cfg) ==
    LET Keep(detector) == isApplicable(detector, language, options, cfg)
    IN  SelectSeq(Detectors, Keep)

\* detector.analyze(content, filePath, detectorSettings) for the detector
\* with this id; sets are the naming detector's sets after initializeSets.
analyze(detector, sets, content, filePath) ==
    CASE detector = "naming" -> NamingAnalyze(sets, content)
      [] detector = "error_handling" -> ErrorHandlingAnalyze(content)
      [] detector = "security" -> SecurityAnalyze(content, filePath)
      [] detector = "code_quality" -> CodeQualityAnalyze(content)

\* A detector promise without its catch handler: a failure stays a failure.
catchHandlerMissing(outcome) == outcome

\* The .catch((error) => ...) attached to every detector's promise.
catchHandler(outcome) ==
    IF outcome.ok THEN outcome ELSE Fulfilled(<<>>)

RECURSIVE flat(_)
flat(results) ==
    IF results = <<>> THEN <<>> ELSE Head(results) \o flat(Tail(results))

applySeverityFilter(patterns, minSeverity) ==
    LET Meets(p) == meetsSeverityThreshold(p.severity, minSeverity)
    IN  SelectSeq(patterns, Meets)

\* An override that reaches only the first finding of each type.
applySeverityOverridesFirst(patterns, severityOverrides) ==
    [i \in 1..Len(patterns) |->
        IF /\ patterns[i].type \in DOMAIN severityOverrides
           /\ \A j \in 1..(i - 1) : patterns[j].type # patterns[i].type
        THEN [patterns[i] EXCEPT
                !.severity = severityOverrides[patterns[i].type]]
        ELSE patterns[i]]

applySeverityOverrides(patterns, severityOverrides) ==
    [i \in 1..Len(patterns) |->
        IF patterns[i].type \in DOMAIN severityOverrides
        THEN [patterns[i] EXCEPT
                !.severity = severityOverrides[patterns[i].type]]
        ELSE patterns[i]]

\* The comparator handed to patterns.sort.
comparePatterns(a, b) ==
    IF compareSeverity(a.severity, b.severity) # 0
    THEN compareSeverity(a.severity, b.severity)
    ELSE a.startLine - b.startLine

\* Array.prototype.sort is stable: an element goes behind every element
\* that does not compare greater than it.
insertSorted(sorted, p) ==
    LET after == {i \in 1..Len(sorted) : comparePatterns(sorted[i], p) > 0}
        k == IF after = {} THEN Len(sorted) + 1
             ELSE CHOOSE i \in after : \A j \in after : i <= j
    IN  SubSeq(sorted, 1, k - 1) \o <<p>> \o SubSeq(sorted, k, Len(sorted))

RECURSIVE sortFrom(_, _)
sortFrom(sorted, rest) ==
    IF rest = <<>> THEN sorted
    ELSE sortFrom(insertSorted(sorted, Head(rest)), Tail(rest))

sortPatterns(patterns) == sortFrom(<<>>, patterns)

\* The overrides applied before the threshold check.
processResultsOverrideFirst(detectorResults, minSeverity, severityOverrides) ==
    sortPatterns(
        applySeverityFilter(
            applySeverityOverrides(flat(detectorResults), severityOverrides),
            minSeverity))

\* The sort done before the overrides are applied.
processResultsSortFirst(detectorResults, minSeverity, severityOverrides) ==
    applySeverityOverrides(
        sortPatterns(applySeverityFilter(flat(detectorResults), minSeverity)),
        severityOverrides)

\* analyzeFile from "Flatten and filter results" to the sort.
processResults(detectorResults, minSeverity, severityOverrides) ==
    sortPatterns(
        applySeverityOverrides(
            applySeverityFilter(flat(detectorResults), minSeverity),
            severityOverrides))

\* options.minSeverity ?? mergedConfig.minSeverity
effectiveMinSeverity(options, mergedConfig) ==
    IF "minSeverity" \in DOMAIN options THEN options.minSeverity
    ELSE mergedConfig.minSeverity

\* { ...this.config, ...options.config }
mergeConfig(cfg, options) ==
    Merge(cfg, IF "config" \in DOMAIN options THEN options.config ELSE Absent)

-----------------------------------------------------------------------------
(* The inputs the callers supply                                           *)

Decl(kind, name, line, ancestors) ==
    [kind |-> kind, name |-> name, line |-> line, ancestors |-> ancestors]

Raw(type, severity, line) == [type |-> type, severity |-> severity, line |-> line]

\* const data = load(); for (let i ...) {}; const payload = ...;
\* rows.map((item) => ...), with an empty catch, a swallowed error, a vague
\* message, a secret, Math.random() for a token, two magic numbers, a TODO.
ContentMixed ==
    [decls |-> <<Decl("var", <<"d", "a", "t", "a">>, 2, {}),
                 Decl("var", <<"i">>, 5, {"for"}),
                 Decl("var", <<"p", "a", "y", "l", "o", "a", "d">>, 7, {}),
                 Decl("param", <<"i", "t", "e", "m">>, 11, {"callback"})>>,
     errorHandling |-> <<Raw("empty_catch_block", "critical", 4),
                         Raw("swallowed_error", "warning", 9),
                         Raw("generic_error_message", "info", 3)>>,
     security |-> <<Raw("hardcoded_secret", "critical", 1),
                    Raw("insecure_random", "warning", 12)>>,
     codeQuality |-> <<Raw("magic_number", "info", 2),
                       Raw("magic_number", "info", 6),
                       Raw("todo_without_context", "info", 8)>>,
     throws |-> {}]

\* A text on which the security detector's walk throws; mixed naming
\* conventions, a one-letter name, a catch binding.
ContentThrowing ==
    [decls |-> <<Decl("var", <<"q">>, 1, {}),
                 Decl("var", <<"u", "s", "e", "r", "N", "a", "m", "e">>, 3, {}),
                 Decl("var", <<"u", "s", "e", "r", "_", "i", "d">>, 4, {}),
                 Decl("var", <<"m", "a", "x", "C", "o", "u", "n", "t">>, 6, {}),
                 Decl("var", <<"e">>, 7, {"catch"})>>,
     errorHandling |-> <<Raw("swallowed_error", "warning", 7)>>,
     security |-> <<Raw("unsafe_eval", "critical", 5)>>,
     codeQuality |-> <<Raw("overly_complex_function", "warning", 2),
                       Raw("placeholder_implementation", "critical", 5),
                       Raw("magic_number", "info", 9)>>,
     throws |-> {"security"}]

PathSource == <<"src", "/", "a", ".", "ts">>
PathNodeModules ==
    <<"/", "project", "/", "node_modules", "/", "pkg", "/", "index", ".", "ts">>
PathText == <<"notes", ".", "txt">>
PathPython == <<"a", ".", "py">>
PathTest == <<"src", "/", "a", ".", "test", ".", "ts">>

File(path, content) == [path |-> path, content |-> content]

\* The enabledPatterns example of docs/patterns.md, "Disabling Patterns".
DocEnabledPatterns == {"empty_catch_block", "hardcoded_secret", "unsafe_eval"}

\* The severityOverrides example: magic_number raised, a secret lowered.
OverridesExample == [magic_number |-> "critical", hardcoded_secret |-> "info"]

\* The argument of updateConfig: a project configuration with its own
\* threshold, exclusion glob and naming lists.
ConfigCustom ==
    [minSeverity |-> "warning",
     exclude |-> {<<"**", "/", "*", ".", "test", ".", "ts">>},
     genericVariableNames |-> {<<"P", "a", "y", "l", "o", "a", "d">>},
     loopVariableNames |-> {<<"q">>}]

ConfigUpdates == {ConfigCustom, DEFAULT_CONFIG}

\* The options of analyzeFile.
OptionsCritical == [minSeverity |-> "critical"]

OptionsTypes ==
    [patternTypes |-> {"magic_number", "generic_variable_name",
                       "inconsistent_naming"},
     minSeverity |-> "info"]

OptionsDocEnabled == [config |-> [enabledPatterns |-> DocEnabledPatterns]]

OptionsOverrides == [config |-> [severityOverrides |-> OverridesExample]]

Request(path, content, options) ==
    [file |-> File(path, content), options |-> options]

\* The analyzeFile calls the callers make.
Requests ==
    {Request(PathSource, ContentMixed, Absent),
     Request(PathSource, ContentMixed, OptionsCritical),
     Request(PathSource, ContentMixed, OptionsTypes),
     Request(PathSource, ContentMixed, OptionsDocEnabled),
     Request(PathSource, ContentMixed, OptionsOverrides),
     Request(PathSource, ContentThrowing, Absent),
     Request(PathNodeModules, ContentMixed, Absent),
     Request(PathNodeModules, ContentThrowing, Absent),
     Request(PathText, ContentMixed, Absent),
     Request(PathPython, ContentThrowing, Absent),
     Request(PathTest, ContentMixed, Absent)}

-----------------------------------------------------------------------------
(* State machine                                                           *)

Idle == [pc |-> "idle"]

\* No source file has an entry in any detector's Project, and no analyze
\* call has been made.
NoRun == [pc |-> "idle"]

\* The analyzer and one instance of each detector after construction.
Constructed ==
    /\ config = DEFAULT_CONFIG
    /\ namingSets = initializeSets(UnsetSets, NoSettings)
    /\ calls = [c \in Slots |-> Idle]
    /\ project = [d \in Range(Detectors) |-> {}]
    /\ run = NoRun
    /\ clock = 0

Init ==
    /\ Constructed
    /\ SummaryIdle
    /\ PanelIdle
    /\ DiffIdle
    /\ HookIdle
    /\ FileIdle

\* analyzeFile up to its await: configuration merge, language detection,
\* exclusion check, detector selection and the synchronous run of every
\* selected detector's analyze (none of them awaits anything).
AnalyzeFile(c, file, options) ==
    LET mergedConfig == mergeConfig(config, options)
        language == detectLanguage(file.path)
        applicableDetectors ==
            getApplicableDetectors(language, options, mergedConfig)
        detectorSettings == toDetectorSettings(mergedConfig)
        sets == IF "naming" \in Range(applicableDetectors)
                THEN initializeSets(namingSets, detectorSettings)
                ELSE namingSets
        call == [file |-> file, options |-> options,
                 mergedConfig |-> mergedConfig, language |-> language]
    IN  /\ calls[c].pc = "idle"
        /\ IF shouldExcludeFile(file.path, mergedConfig)
           THEN /\ calls' = [calls EXCEPT ![c] =
                        call @@ [pc |-> "done", invoked |-> <<>>,
                                 outcomes |-> <<>>, patterns |-> <<>>]]
                /\ UNCHANGED namingSets
           ELSE /\ calls' = [calls EXCEPT ![c] =
                        call @@ [pc |-> "awaiting",
                                 invoked |-> applicableDetectors,
                                 outcomes |->
                                    [i \in 1..Len(applicableDetectors) |->
                                        analyze(applicableDetectors[i], sets,
                                                file.content, file.path)],
                                 patterns |-> <<>>]]
                /\ namingSets' = sets
        /\ UNCHANGED <<config, detectorVars, componentVars>>

\* analyzeFile after Promise.all has settled: a rejected detector promise
\* that the catch handler let through rejects the whole call.
Resume(c) ==
    LET call == calls[c]
        settled == [i \in 1..Len(call.outcomes) |->
                        catchHandler(call.outcomes[i])]
        detectorResults == [i \in 1..Len(settled) |-> settled[i].patterns]
    IN  /\ call.pc = "awaiting"
        /\ calls' = [calls EXCEPT ![c] =
              IF \E i \in 1..Len(settled) : ~settled[i].ok
              THEN [call EXCEPT !.pc = "rejected"]
              ELSE [call EXCEPT
                      !.pc = "done",
                      !.patterns =
                          processResults(
                              detectorResults,
                              effectiveMinSeverity(call.options,
                                                   call.mergedConfig),
                              call.mergedConfig.severityOverrides)]]
        /\ UNCHANGED <<config, namingSets, detectorVars, componentVars>>

\* The caller has taken the result; the slot serves the next call.
Release(c) ==
    /\ calls[c].pc \in {"done", "rejected"}
    /\ calls' = [calls EXCEPT ![c] = Idle]
    /\ UNCHANGED <<config, namingSets, detectorVars, componentVars>>

\* Analyzer.updateConfig
updateConfig(partial) ==
    /\ config' = Merge(config, partial)
    /\ config' # config
    /\ UNCHANGED <<namingSets, calls, detectorVars, componentVars>>

Next ==
    \/ \E c \in Slots, request \in Requests :
         AnalyzeFile(c, request.file, request.options)
    \/ \E c \in Slots : Resume(c)
    \/ \E c \in Slots : Release(c)
    \/ \E partial \in ConfigUpdates : updateConfig(partial)

Spec == Init /\ [][Next]_vars

-----------------------------------------------------------------------------
(* Properties                                                              *)

Started(c) == calls[c].pc \in {"awaiting", "done", "rejected"}

\* A finding without its severity, which the overrides may change.
Key(p) == <<p.type, p.startLine, p.detectorId>>

CountKey(patterns, k) ==
    Cardinality({i \in 1..Len(patterns) : Key(patterns[i]) = k})

CountOf(patterns, detector) ==
    Cardinality({i \in 1..Len(patterns) : patterns[i].detectorId = detector})

\* The same findings, in any order and whatever their severities.
SameFindings(ps, qs) ==
    /\ Len(ps) = Len(qs)
    /\ \A i \in 1..Len(ps) : CountKey(ps, Key(ps[i])) = CountKey(qs, Key(ps[i]))

\* The threshold a call has to use: the option when given, else the
\* configured one.
Threshold(call) ==
    IF "minSeverity" \in DOMAIN call.options THEN call.options.minSeverity
    ELSE call.mergedConfig.minSeverity

AtLeast(severity, threshold) ==
    SeverityOrder[severity] >= SeverityOrder[threshold]

\* C1: a detector that throws counts as a detector without findings:
\* analyzeFile never rejects, and its result holds, for every invoked
\* detector that returned, each returned finding at or above the threshold
\* and nothing else from that detector, and nothing from a detector that
\* threw.
C1_FailureIsolation ==
    \A c \in Slots :
        /\ calls[c].pc # "rejected"
        /\ calls[c].pc = "done" =>
            \A i \in 1..Len(calls[c].invoked) :
                LET out == calls[c].outcomes[i]
                    kept == {j \in 1..Len(out.patterns) :
                                AtLeast(out.patterns[j].severity,
                                        Threshold(calls[c]))}
                IN  /\ CountOf(calls[c].patterns, calls[c].invoked[i])
                        = IF out.ok THEN Cardinality(kept) ELSE 0
                    /\ out.ok =>
                        \A j \in kept :
                            \E q \in Range(calls[c].patterns) :
                                Key(q) = Key(out.patterns[j])

\* A finished call in which one detector threw and the others' findings are
\* in the result.
C1_Witness ==
    \E c \in Slots :
        /\ calls[c].pc = "done"
        /\ \E i \in 1..Len(calls[c].invoked) : ~calls[c].outcomes[i].ok
        /\ \E i \in 1..Len(calls[c].invoked) :
            /\ calls[c].outcomes[i].ok
            /\ CountOf(calls[c].patterns, calls[c].invoked[i]) >= 2

\* C2: a call whose path matches one of the exclusion globs of its merged
\* configuration returns no pattern and invokes no detector, whatever the
\* content.
C2_ExcludedShortCircuit ==
    \A c \in Slots :
        (Started(c) /\ \E glob \in calls[c].mergedConfig.exclude :
                            globToRegex(glob, calls[c].file.path))
        => /\ calls[c].pc = "done"
           /\ calls[c].patterns = <<>>
           /\ calls[c].invoked = <<>>

\* Two finished calls on an excluded path with different contents.
C2_Witness ==
    \E c, d \in Slots :
        /\ calls[c].pc = "done" /\ calls[d].pc = "done"
        /\ calls[c].file.path = calls[d].file.path
        /\ calls[c].file.content # calls[d].file.content
        /\ matchesGlob(calls[c].file.path, calls[c].mergedConfig.exclude)
        /\ matchesGlob(calls[d].file.path, calls[d].mergedConfig.exclude)
        /\ calls[c].patterns = <<>> /\ calls[d].patterns = <<>>

\* What the invoked detectors of a call reported, in detector order; a
\* detector that threw reported nothing.
Detected(call) ==
    flat([i \in 1..Len(call.outcomes) |->
            IF call.outcomes[i].ok THEN call.outcomes[i].patterns ELSE <<>>])

\* C3: a call on a file whose language cannot be resolved from its
\* extension invokes no detector and returns an empty pattern list, without
\* rejecting.
C3_UnresolvedLanguageRunsNothing ==
    \A c \in Slots :
        (Started(c) /\ calls[c].language = NoLanguage)
        => /\ calls[c].invoked = <<>>
           /\ calls[c].pc # "rejected"
           /\ calls[c].pc = "done" => calls[c].patterns = <<>>

\* C4: every detector a call invokes lists the file's language and declares
\* a pattern type that is in options.patternTypes (when given) and in the
\* enabled patterns of the merged configuration.
C4_InvokedOnlyIfApplicable ==
    \A c \in Slots :
        Started(c) =>
            \A detector \in Range(calls[c].invoked) :
                /\ calls[c].language \in DetectorLanguages[detector]
                /\ \E p \in DetectorPatterns[detector] :
                    /\ p \in calls[c].mergedConfig.enabledPatterns
                    /\ "patternTypes" \in DOMAIN calls[c].options
                        => p \in calls[c].options.patternTypes

\* C5: every pattern a call returns has a type that is enabled in the merged
\* configuration and, when options.patternTypes is given, listed there.
C5_OnlyEnabledTypesReported ==
    \A c \in Slots :
        calls[c].pc = "done" =>
            \A p \in Range(calls[c].patterns) :
                /\ p.type \in calls[c].mergedConfig.enabledPatterns
                /\ "patternTypes" \in DOMAIN calls[c].options
                    => p.type \in calls[c].options.patternTypes

\* The positions of the detected patterns at or above the threshold.
Kept(call) ==
    LET detected == Detected(call)
        threshold == Threshold(call)
    IN  {i \in 1..Len(detected) : AtLeast(detected[i].severity, threshold)}

\* C6: a finished call returns exactly the detected patterns whose reported
\* severity is at or above the threshold, the threshold being
\* options.minSeverity when given and the configured minSeverity otherwise;
\* and of two calls with the same file and detector output, the one with
\* the higher threshold returns a subset of what the other returns.
C6_SeverityFilter ==
    /\ \A c \in Slots :
        calls[c].pc = "done" =>
            LET detected == Detected(calls[c])
                kept == Kept(calls[c])
            IN  /\ Len(calls[c].patterns) = Cardinality(kept)
                /\ \A i \in kept :
                    CountKey(calls[c].patterns, Key(detected[i]))
                        = Cardinality({j \in kept :
                                          Key(detected[j]) = Key(detected[i])})
    /\ \A c, d \in Slots :
        (/\ calls[c].pc = "done" /\ calls[d].pc = "done"
         /\ calls[c].file = calls[d].file
         /\ AtLeast(Threshold(calls[c]), Threshold(calls[d]))
         /\ Detected(calls[c]) = Detected(calls[d]))
        => \A p \in Range(calls[c].patterns) :
              CountKey(calls[c].patterns, Key(p))
                  <= CountKey(calls[d].patterns, Key(p))

\* Two finished calls on the same file, one with the option "critical" and
\* one with the configured threshold "info": the first returns fewer
\* patterns than the second, and more than none.
C6_Witness ==
    \E c, d \in Slots :
        /\ calls[c].pc = "done" /\ calls[d].pc = "done"
        /\ calls[c].file = calls[d].file
        /\ Detected(calls[c]) = Detected(calls[d])
        /\ "minSeverity" \in DOMAIN calls[c].options
        /\ "minSeverity" \notin DOMAIN calls[d].options
        /\ Threshold(calls[c]) = "critical" /\ Threshold(calls[d]) = "info"
        /\ calls[c].patterns # <<>>
        /\ Len(calls[c].patterns) < Len(calls[d].patterns)
        /\ Len(calls[d].patterns) = Len(Detected(calls[d]))

\* C7: two finished calls with the same detector output and the same
\* threshold return the same findings, severities aside, whatever their
\* severity overrides.
C7_FilterBeforeOverride ==
    \A c, d \in Slots :
        (/\ calls[c].pc = "done" /\ calls[d].pc = "done"
         /\ Threshold(calls[c]) = Threshold(calls[d])
         /\ Detected(calls[c]) = Detected(calls[d]))
        => SameFindings(calls[c].patterns, calls[d].patterns)

\* Two finished calls with the same detector output and threshold, one with
\* overrides and one without: a finding below the threshold whose type is
\* overridden upward is in neither result, and a finding above it whose
\* type is overridden downward is in both.
C7_Witness ==
    \E c, d \in Slots :
        LET overrides == calls[c].mergedConfig.severityOverrides
            Below(severity) == ~AtLeast(severity, Threshold(calls[c]))
        IN  /\ calls[c].pc = "done" /\ calls[d].pc = "done"
            /\ Detected(calls[c]) = Detected(calls[d])
            /\ Threshold(calls[c]) = Threshold(calls[d])
            /\ calls[d].mergedConfig.severityOverrides = Absent
            /\ \E q \in Range(Detected(calls[c])) :
                /\ q.type \in DOMAIN overrides
                /\ Below(q.severity) /\ ~Below(overrides[q.type])
                /\ CountKey(calls[c].patterns, Key(q)) = 0
                /\ CountKey(calls[d].patterns, Key(q)) = 0
            /\ \E q \in Range(Detected(calls[c])) :
                /\ q.type \in DOMAIN overrides
                /\ ~Below(q.severity) /\ Below(overrides[q.type])
                /\ CountKey(calls[c].patterns, Key(q)) = 1
                /\ CountKey(calls[d].patterns, Key(q)) = 1

\* C8: in the result of a finished call every finding of a type with a
\* severity override carries the override severity and every other finding
\* the severity its detector reported; and what the detectors report does
\* not depend on the overrides: two calls on the same file with the same
\* detectors and detector settings have the same detector outcomes.
C8_OverridesApplied ==
    /\ \A c \in Slots :
        calls[c].pc = "done" =>
            LET overrides == calls[c].mergedConfig.severityOverrides
            IN  \A p \in Range(calls[c].patterns) :
                    IF p.type \in DOMAIN overrides
                    THEN p.severity = overrides[p.type]
                    ELSE \E q \in Range(Detected(calls[c])) :
                            Key(q) = Key(p) /\ q.severity = p.severity
    /\ \A c, d \in Slots :
        (/\ Started(c) /\ Started(d)
         /\ calls[c].file = calls[d].file
         /\ calls[c].invoked = calls[d].invoked
         /\ toDetectorSettings(calls[c].mergedConfig)
                = toDetectorSettings(calls[d].mergedConfig))
        => calls[c].outcomes = calls[d].outcomes

\* A finished call with the override magic_number -> critical: its two
\* magic_number findings, reported as info, are critical in the result, and
\* a finding of a type without override is still a warning.
C8_Witness ==
    \E c \in Slots :
        LET overrides == calls[c].mergedConfig.severityOverrides
            magic == {i \in 1..Len(calls[c].patterns) :
                         calls[c].patterns[i].type = "magic_number"}
        IN  /\ calls[c].pc = "done"
            /\ "magic_number" \in DOMAIN overrides
            /\ overrides["magic_number"] = "critical"
            /\ Cardinality(magic) = 2
            /\ \A i \in magic : calls[c].patterns[i].severity = "critical"
            /\ \A q \in Range(Detected(calls[c])) :
                q.type = "magic_number" => q.severity = "info"
            /\ \E p \in Range(calls[c].patterns) :
                p.type \notin DOMAIN overrides /\ p.severity = "warning"

\* C9: in the result of a finished call every pattern is followed by one of
\* lower severity, or of the same severity and a start line that is not
\* smaller; the severity is the one the pattern carries in the result.
C9_Sorted ==
    \A c \in Slots :
        calls[c].pc = "done" =>
            \A i \in 1..(Len(calls[c].patterns) - 1) :
                LET p == calls[c].patterns[i]
                    q == calls[c].patterns[i + 1]
                IN  \/ SeverityOrder[p.severity] > SeverityOrder[q.severity]
                    \/ /\ p.severity = q.severity
                       /\ p.startLine <= q.startLine

\* A finished call whose result holds the three severities, an overridden
\* finding that comes before a finding its detector ranked higher, and two
\* findings of equal severity on different lines.
C9_Witness ==
    \E c \in Slots :
        LET ps == calls[c].patterns
        IN  /\ calls[c].pc = "done"
            /\ {ps[i].severity : i \in 1..Len(ps)} = Severities
            /\ \E i, j \in 1..Len(ps) :
                /\ i < j
                /\ ps[i].type \in DOMAIN calls[c].mergedConfig.severityOverrides
                /\ \E q \in Range(Detected(calls[c])) :
                    Key(q) = Key(ps[i]) /\ q.severity = "info"
                /\ \E q \in Range(Detected(calls[c])) :
                    Key(q) = Key(ps[j]) /\ q.severity = "warning"
            /\ \E i \in 1..(Len(ps) - 1) :
                /\ ps[i].severity = ps[i + 1].severity
                /\ ps[i].startLine < ps[i + 1].startLine

\* C10: two calls of the same file with the same options under the same
\* merged configuration invoke the same detectors with the same outcomes
\* and, once finished, return the same pattern list.
C10_Deterministic ==
    \A c, d \in Slots :
        (/\ Started(c) /\ Started(d)
         /\ calls[c].file = calls[d].file
         /\ calls[c].options = calls[d].options
         /\ calls[c].mergedConfig = calls[d].mergedConfig)
        => /\ calls[c].invoked = calls[d].invoked
           /\ calls[c].outcomes = calls[d].outcomes
           /\ (calls[c].pc = "done" /\ calls[d].pc = "done")
                => calls[c].patterns = calls[d].patterns

\* Two finished calls of the same file, options and configuration, made
\* under a configuration that updateConfig has set, with findings of the
\* naming detector that depend on that configuration's naming lists.
C10_Witness ==
    \E c, d \in Slots :
        /\ c # d
        /\ calls[c].pc = "done" /\ calls[d].pc = "done"
        /\ calls[c].file = calls[d].file
        /\ calls[c].options = calls[d].options
        /\ calls[c].mergedConfig = calls[d].mergedConfig
        /\ CountOf(calls[c].patterns, "naming") >= 1
        /\ toDetectorSettings(calls[c].mergedConfig)
                # toDetectorSettings(DEFAULT_CONFIG)
        /\ \E p \in Range(calls[c].patterns) :
            /\ p.detectorId = "naming"
            /\ p \notin Range(NamingAnalyze(
                                initializeSets(UnsetSets, NoSettings),
                                calls[c].file.content).patterns)


-----------------------------------------------------------------------------
(* The detectors, check by check                                           *)
(*                                                                         *)
(* A source text is here what the checks read from its syntax tree and its *)
(* lines: declarations, try statements, catch clauses, string literals,    *)
(* functions with the node kinds below them, and the lines as sequences of *)
(* characters.  Checks that no property below looks into are given by the  *)
(* findings they make.                                                     *)

\* The arguments of one createPattern call; the snippet is kept for the
\* findings whose snippet is computed from the text.
PatternArgs(type, severity, line, snippet) ==
    [type |-> type, severity |-> severity, line |-> line, snippet |-> snippet]

FromRaw(raw) ==
    [i \in 1..Len(raw) |->
        PatternArgs(raw[i].type, raw[i].severity, raw[i].line, <<>>)]

\* array.flatMap over a sequence of sequences
RECURSIVE FlatMap(_)
FlatMap(seqs) ==
    IF seqs = <<>> THEN <<>> ELSE Head(seqs) \o FlatMap(Tail(seqs))

\* ErrorHandlingDetector.isEffectivelyEmpty: no statement, or every
\* statement's text starts with a comment opener.
isEffectivelyEmpty(block) ==
    \/ Len(block) = 0
    \/ ~ \E i \in 1..Len(block) : ~block[i].comment

detectEmptyCatchBlocks(source) ==
    LET Empty(catchClause) == isEffectivelyEmpty(catchClause.block)
        hits == SelectSeq(source.catches, Empty)
    IN  [i \in 1..Len(hits) |->
            PatternArgs("empty_catch_block", "critical", hits[i].line, <<>>)]

\* The identifiers below the block whose text is the catch binding's name.
errorUsages(catchClause) ==
    LET block == catchClause.block
        identifiers ==
            UNION {{<<i, k>> : k \in 1..Len(block[i].identifiers)} :
                        i \in 1..Len(block)}
    IN  {p \in identifiers :
            block[p[1]].identifiers[p[2]] = catchClause.errorParam}

\* The check with the skip of effectively empty blocks left out.
detectSwallowedErrorsInEmpty(source) ==
    LET Swallowed(catchClause) ==
            /\ catchClause.errorParam # <<>>
            /\ errorUsages(catchClause) = {}
        hits == SelectSeq(source.catches, Swallowed)
    IN  [i \in 1..Len(hits) |->
            PatternArgs("swallowed_error", "warning", hits[i].line, <<>>)]

detectSwallowedErrors(source) ==
    LET Swallowed(catchClause) ==
            /\ ~(catchClause.errorParam = <<>>
                    \/ isEffectivelyEmpty(catchClause.block))
            /\ errorUsages(catchClause) = {}
        hits == SelectSeq(source.catches, Swallowed)
    IN  [i \in 1..Len(hits) |->
            PatternArgs("swallowed_error", "warning", hits[i].line, <<>>)]

\* A try with neither catch nor finally is reported as an empty catch block;
\* a try...finally whose block awaits, throws or calls as try_without_catch.
detectTryWithoutCatch(source) ==
    LET Report(tryStmt) ==
            IF ~tryStmt.catchClause /\ ~tryStmt.finallyBlock
            THEN <<PatternArgs("empty_catch_block", "critical", tryStmt.line,
                               <<>>)>>
            ELSE IF ~tryStmt.catchClause /\ tryStmt.finallyBlock
                    /\ tryStmt.canThrow
            THEN <<PatternArgs("try_without_catch", "info", tryStmt.line,
                               <<>>)>>
            ELSE <<>>
    IN  FlatMap([i \in 1..Len(source.tries) |-> Report(source.tries[i])])

detectMissingErrorBoundaries(source) == FromRaw(source.errorBoundaries)

GENERIC_ERROR_MESSAGES ==
    {<<"a", "n", " ", "e", "r", "r", "o", "r", " ", "o", "c", "c", "u", "r",
       "r", "e", "d">>,
     <<"s", "o", "m", "e", "t", "h", "i", "n", "g", " ", "w", "e", "n", "t",
       " ", "w", "r", "o", "n", "g">>,
     <<"e", "r", "r", "o", "r">>, <<"f", "a", "i", "l", "e", "d">>, <<"o",
       "o", "p", "s">>,
     <<"u", "n", "k", "n", "o", "w", "n", " ", "e", "r", "r", "o", "r">>,
     <<"i", "n", "t", "e", "r", "n", "a", "l", " ", "e", "r", "r", "o", "r">>,
     <<"u", "n", "e", "x", "p", "e", "c", "t", "e", "d", " ", "e", "r", "r",
       "o", "r">>}

\* literal.ancestors: "throw", "newError" (a new expression of Error or of a
\* class whose name ends with Error), "catch", "reject" (a call of reject).
isInErrorContext(node) ==
    \/ "throw" \in node.ancestors
    \/ "newError" \in node.ancestors
    \/ "catch" \in node.ancestors
    \/ "reject" \in node.ancestors

\* The messages are the module constant; the settings of the call are not
\* read.
detectGenericErrorMessages(source) ==
    LET Generic(literal) ==
            LET text == toLowerCase(literal.text)
            IN  /\ \E msg \in GENERIC_ERROR_MESSAGES :
                      text = msg \/ (Len(text) < 30 /\ Contains(text, msg))
                /\ isInErrorContext(literal)
        hits == SelectSeq(source.literals, Generic)
    IN  [i \in 1..Len(hits) |->
            PatternArgs("generic_error_message", "info", hits[i].line, <<>>)]

\* The body of ErrorHandlingDetector.analyze between createSourceFile and
\* the finally block.
ErrorHandlingChecks(source) ==
    detectEmptyCatchBlocks(source) \o detectSwallowedErrors(source)
        \o detectTryWithoutCatch(source)
        \o detectMissingErrorBoundaries(source)
        \o detectGenericErrorMessages(source)


-----------------------------------------------------------------------------
(* SecurityDetector: hardcoded secrets                                     *)

Quotes == {"'", "\""}

SegmentChars == Letters \cup Digits \cup {"-", "_"}

Min(set) == CHOOSE i \in set : \A j \in set : i <= j

\* The first position from i on that holds no blank: where \s* ends.
SkipSpaces(line, i) ==
    CHOOSE j \in i..(Len(line) + 1) :
        /\ j = Len(line) + 1 \/ line[j] # " "
        /\ \A k \in i..(j - 1) : line[k] = " "

\* The first position from i on that holds a quote: where [^'"]* ends.
NextQuote(line, i) ==
    CHOOSE j \in i..(Len(line) + 1) :
        /\ j = Len(line) + 1 \/ line[j] \in Quotes
        /\ \A k \in i..(j - 1) : line[k] \notin Quotes

\* The last position of the run of [A-Za-z0-9\-_] that starts at i, i - 1
\* when there is none.
RunEnd(line, i) ==
    CHOOSE j \in (i - 1)..Len(line) :
        /\ \A k \in i..j : line[k] \in SegmentChars
        /\ j = Len(line) \/ line[j + 1] \notin SegmentChars

\* The position where \s*[:=]\s*['"][^'"]+['"] ends when it starts at p,
\* 0 when it does not match there.
ValueEnd(line, p) ==
    LET n == Len(line)
        sep == SkipSpaces(line, p)
        open == SkipSpaces(line, sep + 1)
        close == NextQuote(line, open + 1)
    IN  IF /\ sep <= n /\ line[sep] \in {":", "="}
           /\ open <= n /\ line[open] \in Quotes
           /\ close <= n /\ close >= open + 2
        THEN close ELSE 0

\* pattern.exec(line) of a key/value pattern with the i flag: match[0] of
\* the leftmost match, <<>> when there is none.
KeyValueExec(line, keywords) ==
    LET n == Len(line)
        lower == toLowerCase(line)
        Ends(i) ==
            {ValueEnd(line, i + Len(kw)) :
                kw \in {w \in keywords :
                          /\ i + Len(w) - 1 <= n
                          /\ SubSeq(lower, i, i + Len(w) - 1) = w}} \ {0}
        starts == {i \in 1..n : Ends(i) # {}}
    IN  IF starts = {} THEN <<>>
        ELSE SubSeq(line, Min(starts), CHOOSE e \in Ends(Min(starts)) : TRUE)

\* /Bearer\s+[A-Za-z0-9\-_]+\.[A-Za-z0-9\-_]+\.[A-Za-z0-9\-_]+/
BearerExec(line) ==
    LET n == Len(line)
        End(i) ==
            LET first == SkipSpaces(line, i + 6)
                e1 == RunEnd(line, first)
                e2 == RunEnd(line, e1 + 2)
                e3 == RunEnd(line, e2 + 2)
            IN  IF /\ i + 5 <= n
                   /\ SubSeq(line, i, i + 5) = <<"B", "e", "a", "r", "e", "r">>
                   /\ first > i + 6 /\ first <= n
                   /\ e1 >= first /\ e1 + 1 <= n /\ line[e1 + 1] = "."
                   /\ e2 >= e1 + 2 /\ e2 + 1 <= n /\ line[e2 + 1] = "."
                   /\ e3 >= e2 + 2
                THEN e3 ELSE 0
        starts == {i \in 1..n : End(i) # 0}
    IN  IF starts = {} THEN <<>>
        ELSE SubSeq(line, Min(starts), End(Min(starts)))

IndexOf(text, part) ==
    LET at == {k \in 1..(Len(text) - Len(part) + 1) :
                    SubSeq(text, k, k + Len(part) - 1) = part}
    IN  IF at = {} THEN 0 ELSE Min(at)

\* /-----BEGIN\s+(?:RSA\s+)?PRIVATE\s+KEY-----/, every \s+ being one blank
PemExec(line) ==
    LET plain == <<"-", "-", "-", "-", "-", "B", "E", "G", "I", "N", " ", "P",
                   "R", "I", "V", "A", "T", "E", " ", "K", "E", "Y", "-", "-",
                   "-", "-", "-">>
        rsa == <<"-", "-", "-", "-", "-", "B", "E", "G", "I", "N", " ", "R",
                 "S", "A", " ", "P", "R", "I", "V", "A", "T", "E", " ", "K",
                 "E", "Y", "-", "-", "-", "-", "-">>
        p == IndexOf(line, plain)
        r == IndexOf(line, rsa)
    IN  IF p # 0 /\ (r = 0 \/ p < r) THEN plain
        ELSE IF r # 0 THEN rsa
        ELSE <<>>

SECRET_PATTERNS ==
    <<[kind |-> "keyValue",
       keywords |-> {<<"a", "p", "i", "_", "k", "e", "y">>, <<"a", "p", "i",
                       "-", "k", "e", "y">>, <<"a", "p", "i", "k", "e",
                       "y">>}],
      [kind |-> "keyValue",
       keywords |-> {<<"s", "e", "c", "r", "e", "t">>, <<"p", "a", "s", "s",
                       "w", "o", "r", "d">>, <<"p", "a", "s", "s", "w", "d">>,
                       <<"p", "w", "d">>}],
      [kind |-> "keyValue", keywords |-> {<<"t", "o", "k", "e", "n">>, <<"a",
                                            "u", "t", "h">>}],
      [kind |-> "keyValue",
       keywords |-> {<<"p", "r", "i", "v", "a", "t", "e", "_", "k", "e",
                       "y">>, <<"p", "r", "i", "v", "a", "t", "e", "-", "k",
                       "e", "y">>, <<"p", "r", "i", "v", "a", "t", "e", "k",
                       "e", "y">>}],
      [kind |-> "bearer", keywords |-> {}],
      [kind |-> "pem", keywords |-> {}]>>

exec(pattern, line) ==
    IF pattern.kind = "keyValue" THEN KeyValueExec(line, pattern.keywords)
    ELSE IF pattern.kind = "bearer" THEN BearerExec(line)
    ELSE PemExec(line)

\* /process\.env\.|import\.meta\.env\.|\$\{.*env.*\}/i
isEnvironmentVariable(line) ==
    LET lower == toLowerCase(line)
        n == Len(lower)
    IN  \/ Contains(lower, <<"p", "r", "o", "c", "e", "s", "s", ".", "e", "n",
                             "v", ".">>)
        \/ Contains(lower, <<"i", "m", "p", "o", "r", "t", ".", "m", "e", "t",
                             "a", ".", "e", "n", "v", ".">>)
        \/ \E a \in 1..(n - 1) :
              /\ SubSeq(lower, a, a + 1) = <<"$", "{">>
              /\ \E b \in (a + 2)..(n - 2) :
                    /\ SubSeq(lower, b, b + 2) = <<"e", "n", "v">>
                    /\ \E c \in (b + 3)..n : lower[c] = "}"

\* secret.match(/['"]([^'"]+)['"]/)?.[1]: the text between the first quote
\* that is followed by a non-empty run without quotes and the quote that
\* ends the run; <<>> when there is none.
QuotedValue(secret) ==
    LET n == Len(secret)
        opens == {i \in 1..n :
                    /\ secret[i] \in Quotes
                    /\ NextQuote(secret, i + 1) <= n
                    /\ NextQuote(secret, i + 1) >= i + 2}
    IN  IF opens = {} THEN <<>>
        ELSE SubSeq(secret, Min(opens) + 1,
                    NextQuote(secret, Min(opens) + 1) - 1)

\* text.slice(0, count)
slice(text, count) ==
    SubSeq(text, 1, IF Len(text) < count THEN Len(text) ELSE count)

\* line.replace(search, replacement) with a string to search for: the first
\* occurrence is replaced.  The replacements made here hold no "$".
replace(line, search, replacement) ==
    LET k == IndexOf(line, search)
    IN  IF k = 0 THEN line
        ELSE SubSeq(line, 1, k - 1) \o replacement
                \o SubSeq(line, k + Len(search), Len(line))

MASKED == <<"*", "*", "*", "M", "A", "S", "K", "E", "D", "*", "*", "*">>

maskSecret(line, secret) ==
    LET valueMatch == QuotedValue(secret)
    IN  IF valueMatch # <<>> /\ Len(valueMatch) > 4
        THEN replace(line, valueMatch, slice(valueMatch, 4) \o MASKED)
        ELSE line

\* /^eyJ[A-Za-z0-9-_]+\.[A-Za-z0-9-_]+\.[A-Za-z0-9-_]*$/
IsJwt(text) ==
    LET n == Len(text)
        e1 == RunEnd(text, 4)
        e2 == RunEnd(text, e1 + 2)
        e3 == RunEnd(text, e2 + 2)
    IN  /\ n >= 3 /\ SubSeq(text, 1, 3) = <<"e", "y", "J">>
        /\ e1 >= 4 /\ e1 + 1 <= n /\ text[e1 + 1] = "."
        /\ e2 >= e1 + 2 /\ e2 + 1 <= n /\ text[e2 + 1] = "."
        /\ e3 = n

\* /^AKIA[0-9A-Z]{16}$/
IsAwsKey(text) ==
    /\ Len(text) = 20
    /\ SubSeq(text, 1, 4) = <<"A", "K", "I", "A">>
    /\ \A k \in 5..20 : text[k] \in Digits \cup Range(UpperCase)

\* The first pattern of the list that matches the line, 0 when none does.
FirstMatching(line) ==
    LET matching == {p \in 1..Len(SECRET_PATTERNS) :
                        exec(SECRET_PATTERNS[p], line) # <<>>}
    IN  IF matching = {} THEN 0 ELSE Min(matching)

\* The patterns are the module constant; the settings of the call are not
\* read.  A line is reported once, for the first pattern that matches; every
\* string literal is then tested for the shape of a JWT and of an AWS key.
detectHardcodedSecrets(source) ==
    LET lines == source.lines
        OfLine(index) ==
            LET line == lines[index]
                p == FirstMatching(line)
            IN  IF p = 0 \/ isEnvironmentVariable(line) THEN <<>>
                ELSE <<PatternArgs("hardcoded_secret", "critical", index,
                           maskSecret(line, exec(SECRET_PATTERNS[p], line)))>>
        OfLiteral(literal) ==
            (IF IsJwt(literal.text)
             THEN <<PatternArgs("hardcoded_secret", "critical", literal.line,
                        <<"\"">> \o slice(literal.text, 20)
                            \o <<".", ".", ".", "[", "M", "A", "S", "K", "E",
                                 "D", "]", "\"">>)>>
             ELSE <<>>)
            \o (IF IsAwsKey(literal.text)
                THEN <<PatternArgs("hardcoded_secret", "critical",
                           literal.line,
                           <<"\"">> \o slice(literal.text, 8)
                               \o <<".", ".", ".", "[", "M", "A", "S", "K",
                                    "E", "D", "]", "\"">>)>>
                ELSE <<>>)
    IN  FlatMap([index \in 1..Len(lines) |-> OfLine(index)])
          \o FlatMap([i \in 1..Len(source.literals) |->
                        OfLiteral(source.literals[i])])

detectSqlConcatenation(source) == FromRaw(source.sqlConcatenation)

detectUnsafeEval(source) == FromRaw(source.unsafeEval)

detectInsecureRandom(source) == FromRaw(source.insecureRandom)

\* The body of SecurityDetector.analyze between createSourceFile and the
\* finally block.
SecurityChecks(source) ==
    detectHardcodedSecrets(source) \o detectSqlConcatenation(source)
        \o detectUnsafeEval(source) \o detectInsecureRandom(source)


-----------------------------------------------------------------------------
(* CodeQualityDetector: cyclomatic complexity                              *)

\* The kinds of node that add one; a binary expression is given by its
\* operator token.
DecisionKinds ==
    {"IfStatement", "ConditionalExpression", "ForStatement", "ForInStatement",
     "ForOfStatement", "WhileStatement", "DoStatement", "CaseClause",
     "CatchClause", "&&", "||"}

\* func.descendants: the kinds of the nodes below the function, in the
\* order forEachDescendant visits them.
calculateCyclomaticComplexity(node) ==
    1 + Cardinality({k \in 1..Len(node.descendants) :
                        node.descendants[k] \in DecisionKinds})

complexityThreshold == 10

\* Further fields of the pattern that a check computes: the end line, the
\* number the description quotes.
WithFields(args, fields) == args @@ [fields |-> fields]

\* The check with a threshold that is itself reported.
detectComplexFunctionsFromThreshold(source) ==
    LET Complex(func) ==
            calculateCyclomaticComplexity(func) >= complexityThreshold
        hits == SelectSeq(source.functions, Complex)
    IN  [i \in 1..Len(hits) |->
            WithFields(
                PatternArgs("overly_complex_function",
                            IF calculateCyclomaticComplexity(hits[i]) > 20
                            THEN "critical" ELSE "warning",
                            hits[i].line, <<>>),
                [complexity |-> calculateCyclomaticComplexity(hits[i])])]

\* The description of the pattern quotes the complexity.
detectComplexFunctions(source) ==
    LET Complex(func) ==
            calculateCyclomaticComplexity(func) > complexityThreshold
        hits == SelectSeq(source.functions, Complex)
    IN  [i \in 1..Len(hits) |->
            WithFields(
                PatternArgs("overly_complex_function",
                            IF calculateCyclomaticComplexity(hits[i]) > 20
                            THEN "critical" ELSE "warning",
                            hits[i].line, <<>>),
                [complexity |-> calculateCyclomaticComplexity(hits[i])])]

detectMagicNumbers(source) == FromRaw(source.magicNumbers)

detectTodoWithoutContext(source) == FromRaw(source.todos)

\* flushCommentedCode(endLine) on the counters [count, startLine]: a run of
\* three lines or more is reported from its first line to endLine.
flushCommentedCode(count, startLine, endLine) ==
    IF count >= 3
    THEN <<WithFields(PatternArgs("commented_out_code", "info", startLine,
                                  <<>>),
                      [endLine |-> endLine, lines |-> count])>>
    ELSE <<>>

\* The loop over the lines from the 0-based index on, with the counters the
\* closure holds; source.commented[index + 1] is whether one of the code
\* patterns matches the line.
RECURSIVE commentedFrom(_, _, _, _)
commentedFrom(commented, index, count, startLine) ==
    IF index = Len(commented)
    THEN flushCommentedCode(count, startLine, Len(commented))
    ELSE IF commented[index + 1]
    THEN commentedFrom(commented, index + 1, count + 1,
                       IF count = 0 THEN index + 1 ELSE startLine)
    ELSE flushCommentedCode(count, startLine, index)
            \o commentedFrom(commented, index + 1, 0, startLine)

\* The loop without the flush that follows it.
detectCommentedOutCodeInLoop(source) ==
    LET RECURSIVE from(_, _, _)
        from(index, count, startLine) ==
            IF index = Len(source.commented) THEN <<>>
            ELSE IF source.commented[index + 1]
            THEN from(index + 1, count + 1,
                      IF count = 0 THEN index + 1 ELSE startLine)
            ELSE flushCommentedCode(count, startLine, index)
                    \o from(index + 1, 0, startLine)
    IN  from(0, 0, 0)

detectCommentedOutCode(source) == commentedFrom(source.commented, 0, 0, 0)

\* func.body: notImplemented (the body text has throw new Error("not
\* implemented ...), todo (it has a // TODO: implement|add|fix|complete
\* comment), statements (the number of statements of the block), noop (an
\* arrow function that is a call argument or a property value).  A function
\* that throws not-implemented is reported for that and for nothing else.
detectPlaceholderImplementations(source) ==
    LET Report(func) ==
            IF func.body.notImplemented
            THEN <<PatternArgs("placeholder_implementation", "critical",
                               func.line, <<>>)>>
            ELSE (IF func.body.todo
                  THEN <<PatternArgs("placeholder_implementation", "warning",
                                     func.line, <<>>)>>
                  ELSE <<>>)
                 \o (IF func.body.statements = 0 /\ ~func.body.noop
                     THEN <<PatternArgs("placeholder_implementation",
                                        "warning", func.line, <<>>)>>
                     ELSE <<>>)
    IN  FlatMap([i \in 1..Len(source.functions) |->
                    Report(source.functions[i])])

\* The body of CodeQualityDetector.analyze between createSourceFile and the
\* finally block.
CodeQualityChecks(source) ==
    detectMagicNumbers(source) \o detectTodoWithoutContext(source)
        \o detectCommentedOutCode(source) \o detectComplexFunctions(source)
        \o detectPlaceholderImplementations(source)

\* The body of NamingPatternDetector.analyze between createSourceFile and
\* the finally block, with the sets initializeSets has left.
NamingChecks(sets, source) ==
    LET patterns == analyzeDeclarations(sets, source.decls, "var")
                        \o analyzeDeclarations(sets, source.decls, "param")
                        \o analyzeNamingConsistency(source.decls)
    IN  [i \in 1..Len(patterns) |->
            PatternArgs(patterns[i].type, patterns[i].severity,
                        patterns[i].startLine, <<>>)]

\* What the checks of a detector find in a source, in the order of their
\* createPattern calls.
Checks(detector, sets, source) ==
    IF detector = "naming" THEN NamingChecks(sets, source)
    ELSE IF detector = "error_handling" THEN ErrorHandlingChecks(source)
    ELSE IF detector = "security" THEN SecurityChecks(source)
    ELSE CodeQualityChecks(source)


-----------------------------------------------------------------------------
(* The sources, paths and settings the detectors are called with           *)

Catch(line, errorParam, block) ==
    [line |-> line, errorParam |-> errorParam, block |-> block]

Statement(identifiers) == [comment |-> FALSE, identifiers |-> identifiers]

Try(line, catchClause, finallyBlock, canThrow) ==
    [line |-> line, catchClause |-> catchClause,
     finallyBlock |-> finallyBlock, canThrow |-> canThrow]

Literal(line, text, ancestors) ==
    [line |-> line, text |-> text, ancestors |-> ancestors]

Body(notImplemented, todo, statements, noop) ==
    [notImplemented |-> notImplemented, todo |-> todo,
     statements |-> statements, noop |-> noop]

\* A body with statements and without a placeholder.
PlainBody == Body(FALSE, FALSE, 1, FALSE)

Function(line, descendants) ==
    [line |-> line, descendants |-> descendants, body |-> PlainBody]

Placeholder(line, body) ==
    [line |-> line, descendants |-> <<"Block">>, body |-> body]

Repeat(kind, count) == [k \in 1..count |-> kind]

\* A source in which no check finds anything.
EmptySource ==
    [decls |-> <<>>, loopControl |-> {}, tries |-> <<>>, catches |-> <<>>,
     literals |-> <<>>, lines |-> <<>>, functions |-> <<>>,
     errorBoundaries |-> <<>>, sqlConcatenation |-> <<>>,
     unsafeEval |-> <<>>, insecureRandom |-> <<>>, magicNumbers |-> <<>>,
     todos |-> <<>>, commented |-> <<>>,
     throws |-> {}]

With(source, fields) ==
    [f \in DOMAIN source |->
        IF f \in DOMAIN fields THEN fields[f] ELSE source[f]]

\*  1  const data = load();
\*  2  const Result = parse(data);
\*  3  for (let i = 0; i < count; i++) {}
\*  4  for (const item of rows) {}
\*  5  const n = rows.length;
\*  6  const payload = build();
\*  7  let q = 0;
\*  8  rows.map((value) => value + 1);
\* loopControl: the declarations (by position) that are the variable of a
\* loop header.
SourceNaming ==
    With(EmptySource,
         [decls |-> <<Decl("var", <<"d", "a", "t", "a">>, 1, {}),
                      Decl("var", <<"R", "e", "s", "u", "l", "t">>, 2, {}),
                      Decl("var", <<"i">>, 3, {"for"}),
                      Decl("var", <<"i", "t", "e", "m">>, 4, {"for"}),
                      Decl("var", <<"n">>, 5, {}),
                      Decl("var", <<"p", "a", "y", "l", "o", "a", "d">>, 6,
                                    {}),
                      Decl("var", <<"q">>, 7, {}),
                      Decl("param", <<"v", "a", "l", "u", "e">>, 8,
                                      {"callback"})>>,
          loopControl |-> {3, 4}])

\*  1  try { load(); }
\*  2  catch (e) {}
\*  3  try { save(); }
\*  4  catch (err) { console.error(err); }
\*  5  try { send(); }
\*  6  catch (error) { cleanup(); }
\*  7  try { open(); }
\*  8  catch { retry(); }
\*  9  try { await read(); } finally { close(); }
\* 10  throw new Error("Something went wrong");
\* 11  throw new Error("kaboom");
\* 12  const label = "failed";
\* 13  async function poll() { await tick(); }
SourceErrors ==
    With(EmptySource,
         [tries |-> <<Try(1, TRUE, FALSE, TRUE), Try(3, TRUE, FALSE, TRUE),
                      Try(5, TRUE, FALSE, TRUE), Try(7, TRUE, FALSE, TRUE),
                      Try(9, FALSE, TRUE, TRUE)>>,
          catches |->
            <<Catch(2, <<"e">>, <<>>),
              Catch(4, <<"e", "r", "r">>,
                    <<Statement(<<<<"c", "o", "n", "s", "o", "l", "e">>,
                      <<"e", "r", "r", "o", "r">>, <<"e", "r", "r">>>>)>>),
              Catch(6, <<"e", "r", "r", "o", "r">>, <<Statement(<<<<"c", "l",
                         "e", "a", "n", "u", "p">>>>)>>),
              Catch(8, <<>>, <<Statement(<<<<"r", "e", "t", "r", "y">>>>)>>)>>,
          literals |->
            <<Literal(10, <<"S", "o", "m", "e", "t", "h", "i", "n", "g", " ",
              "w", "e", "n", "t", " ", "w", "r", "o", "n", "g">>, {"throw",
              "newError"}),
              Literal(11, <<"k", "a", "b", "o", "o", "m">>, {"throw",
                            "newError"}),
              Literal(12, <<"f", "a", "i", "l", "e", "d">>, {})>>,
          errorBoundaries |-> <<Raw("missing_error_boundary", "warning",
                                13)>>])

LineApiKey == <<"c", "o", "n", "s", "t", " ", "a", "p", "i", "K", "e", "y",
                " ", "=", " ", "\"", "s", "k", "_", "l", "i", "v", "e", "_",
                "a", "b", "c", "d", "e", "f", "1", "2", "3", "4", "5", "6",
                "\"", ";">>
LineShort == <<"p", "w", "d", " ", "=", " ", "\"", "a", "b", "c", "1", "\"">>
LineTwice == <<"c", "h", "e", "c", "k", "(", "\"", "h", "u", "n", "t", "e",
               "r", "2", "2", "\"", ")", ";", " ", "t", "o", "k", "e", "n",
               " ", "=", " ", "\"", "h", "u", "n", "t", "e", "r", "2", "2",
               "\"">>
LineBearer == <<"s", "e", "n", "d", "(", "'", "B", "e", "a", "r", "e", "r",
                " ", "a", "b", ".", "c", "d", ".", "e", "f", "'", ")">>
LineEnv == <<"s", "e", "c", "r", "e", "t", " ", "=", " ", "\"", "$", "{", "p",
             "r", "o", "c", "e", "s", "s", ".", "e", "n", "v", ".", "S", "}",
             "\"">>
LineJwt == <<"t", "o", "k", "e", "n", " ", "=", " ", "\"", "e", "y", "J", "h",
             ".", "b", ".", "c", "\"">>
LineAws == <<"c", "o", "n", "s", "t", " ", "i", "d", " ", "=", " ", "\"", "A",
             "K", "I", "A", "A", "B", "C", "D", "E", "F", "G", "H", "I", "J",
             "K", "L", "M", "N", "O", "P", "\"", ";">>
LinePassphrase == <<"p", "a", "s", "s", "p", "h", "r", "a", "s", "e", " ",
                    "=", " ", "\"", "c", "o", "r", "r", "e", "c", "t", " ",
                    "h", "o", "r", "s", "e", "\"">>
LineQuery == <<"d", "b", ".", "q", "u", "e", "r", "y", "(", "\"", "S", "E",
               "L", "E", "C", "T", " ", "*", " ", "F", "R", "O", "M", " ",
               "t", " ", "W", "H", "E", "R", "E", " ", "i", "d", " ", "=",
               " ", "\"", " ", "+", " ", "i", "d", ")">>
LineEval == <<"e", "v", "a", "l", "(", "i", "n", "p", "u", "t", ")">>
LineRandom == <<"c", "o", "n", "s", "t", " ", "s", "e", "s", "s", "i", "o",
                "n", "I", "d", " ", "=", " ", "M", "a", "t", "h", ".", "r",
                "a", "n", "d", "o", "m", "(", ")">>

\* The lines above as one text, with the string literals of its tree.
SourceSecrets ==
    With(EmptySource,
         [lines |-> <<LineApiKey, LineShort, LineTwice, LineBearer, LineEnv,
                      LineJwt, LineAws, LinePassphrase, LineQuery, LineEval,
                      LineRandom>>,
          literals |->
            <<Literal(1, <<"s", "k", "_", "l", "i", "v", "e", "_", "a", "b",
              "c", "d", "e", "f", "1", "2", "3", "4", "5", "6">>, {}),
              Literal(2, <<"a", "b", "c", "1">>, {}),
              Literal(3, <<"h", "u", "n", "t", "e", "r", "2", "2">>, {}),
              Literal(3, <<"h", "u", "n", "t", "e", "r", "2", "2">>, {}),
              Literal(4, <<"B", "e", "a", "r", "e", "r", " ", "a", "b", ".",
                           "c", "d", ".", "e", "f">>, {}),
              Literal(5, <<"$", "{", "p", "r", "o", "c", "e", "s", "s", ".",
                           "e", "n", "v", ".", "S", "}">>, {}),
              Literal(6, <<"e", "y", "J", "h", ".", "b", ".", "c">>, {}),
              Literal(7, <<"A", "K", "I", "A", "A", "B", "C", "D", "E", "F",
                           "G", "H", "I", "J", "K", "L", "M", "N", "O", "P">>,
                           {}),
              Literal(8, <<"c", "o", "r", "r", "e", "c", "t", " ", "h", "o",
                           "r", "s", "e">>, {}),
              Literal(9, <<"S", "E", "L", "E", "C", "T", " ", "*", " ", "F",
                           "R", "O", "M", " ", "t", " ", "W", "H", "E", "R",
                           "E", " ", "i", "d", " ", "=", " ">>, {})>>,
          sqlConcatenation |-> <<Raw("sql_concatenation", "critical", 9)>>,
          unsafeEval |-> <<Raw("unsafe_eval", "critical", 10)>>,
          insecureRandom |-> <<Raw("insecure_random", "warning", 11)>>])

\* if/else nested four levels deep and a for loop holding a switch with
\* four cases.
FunctionNested ==
    Function(1,
        <<"IfStatement", "Block", "IfStatement", "Block", "IfStatement",
          "Block", "IfStatement", "Block", "Block", "ForStatement", "Block",
          "SwitchStatement", "CaseBlock", "CaseClause", "CaseClause",
          "CaseClause", "CaseClause">>)

\* complexFunction of the detector's test: five ifs, a for loop, three cases
\* and a default, two &&, one ||, one conditional expression.
FunctionOfTest ==
    Function(20,
        <<"IfStatement", "Block", "IfStatement", "Block", "IfStatement",
          "Block", "Block", "IfStatement", "Block", "ForStatement", "Block",
          "IfStatement", "Block", "SwitchStatement", "CaseBlock",
          "CaseClause", "CaseClause", "CaseClause", "DefaultClause",
          "ConditionalExpression", "||", "&&", "&&">>)

\* Complexity 20: the last that is a warning.
FunctionTwenty ==
    Function(40, Repeat("WhileStatement", 6) \o Repeat("CatchClause", 4)
                    \o Repeat("ForOfStatement", 5) \o Repeat("||", 4))

\* Complexity 21: the first that is critical.
FunctionHuge ==
    Function(50, Repeat("IfStatement", 10) \o Repeat("DoStatement", 2)
                    \o Repeat("ForInStatement", 2) \o Repeat("&&", 6))

FunctionPlain == Function(80, <<"Block", "ReturnStatement">>)

SourceComplex ==
    With(EmptySource,
         [functions |-> <<FunctionNested, FunctionOfTest, FunctionTwenty,
                          FunctionHuge, FunctionPlain>>,
          magicNumbers |-> <<Raw("magic_number", "info", 22)>>,
          todos |-> <<Raw("todo_without_context", "info", 51)>>])

\*  1  function notImplemented() { throw new Error('not implemented'); }
\*  3  function later() { // TODO: implement the cache
\*  4      throw new Error("Not implemented yet"); }
\*  6  function soon() { // TODO: add retries
\*  7      return load(); }
\*  9  function nothing() {}
\* 11  function stub() { // TODO fix the parser
\* 12  }
\* 14  emitter.on("close", () => {});
\* 16  // const rows = load();
\* 17  // if (rows.length) {
\* 18  // }
\* 19  const answer = compute();
\* 20  // return rows;
\* 21  // await flush();
\* 22  const next = 1;
\* 23  // const total = sum(rows);
\* 24  // for (const row of rows) {
\* 25  //   add(row);
\* 26  // }
SourcePlaceholders ==
    With(EmptySource,
         [functions |->
            <<Placeholder(1, Body(TRUE, FALSE, 1, FALSE)),
              Placeholder(3, Body(TRUE, TRUE, 1, FALSE)),
              Placeholder(6, Body(FALSE, TRUE, 1, FALSE)),
              Placeholder(9, Body(FALSE, FALSE, 0, FALSE)),
              Placeholder(11, Body(FALSE, TRUE, 0, FALSE)),
              Placeholder(14, Body(FALSE, FALSE, 0, TRUE))>>,
          commented |->
            Repeat(FALSE, 15) \o Repeat(TRUE, 3) \o <<FALSE>>
                \o Repeat(TRUE, 2) \o <<FALSE>> \o Repeat(TRUE, 4)])

\* A text on which the walk of every detector throws.
SourceThrowing ==
    With(SourceNaming,
         [catches |-> <<Catch(2, <<"e">>, <<>>)>>,
          lines |-> <<LineApiKey>>,
          functions |-> <<FunctionOfTest>>,
          throws |-> Range(Detectors)])

\* The texts by name: a call is recorded with the name of its text.
Sources ==
    [naming |-> SourceNaming, errors |-> SourceErrors,
     secrets |-> SourceSecrets, complex |-> SourceComplex,
     placeholders |-> SourcePlaceholders, throwing |-> SourceThrowing]

PathConfig == <<"app", ".", "config", ".", "ts">>

Paths == {PathSource, PathTest, PathConfig}

\* A secret pattern of the settings: /passphrase\s*[:=]\s*['"][^'"]+['"]/i
PatternPassphrase == [kind |-> "keyValue", keywords |-> {<<"p", "a", "s", "s",
                                                           "p", "h", "r", "a",
                                                           "s", "e">>}]

\* The settings of a project that extends all five lists.
SettingsCustom ==
    [genericVariableNames |-> {<<"P", "a", "y", "l", "o", "a", "d">>},
     loopVariableNames |-> {<<"q">>},
     coordinateVariableNames |-> {<<"r">>},
     genericErrorMessages |-> {<<"k", "a", "b", "o", "o", "m">>},
     secretPatterns |-> {PatternPassphrase}]

\* Settings that put a loop variable name on the list of generic names.
SettingsOverlap ==
    [genericVariableNames |-> {<<"n">>},
     loopVariableNames |-> {},
     coordinateVariableNames |-> {},
     genericErrorMessages |-> {},
     secretPatterns |-> {}]

Settings == {NoSettings, SettingsCustom, SettingsOverlap}

AnalyzeCall(detector, source, filePath, settings) ==
    [detector |-> detector, source |-> source, filePath |-> filePath,
     settings |-> settings]

\* The analyze calls the callers make: every detector on the text written
\* for it and on the text that makes it throw; the security detector also
\* on a test file and on a configuration file.
AnalyzeCalls ==
    {AnalyzeCall("naming", source, PathSource, settings) :
        source \in {"naming", "throwing"}, settings \in Settings}
    \cup {AnalyzeCall("error_handling", source, PathSource, settings) :
            source \in {"errors", "throwing"},
            settings \in {NoSettings, SettingsCustom}}
    \cup {AnalyzeCall("security", "secrets", filePath, settings) :
            filePath \in Paths, settings \in {NoSettings, SettingsCustom}}
    \cup {AnalyzeCall("security", "throwing", filePath, NoSettings) :
            filePath \in {PathSource, PathTest}}
    \cup {AnalyzeCall("code_quality", source, PathSource, NoSettings) :
            source \in {"complex", "placeholders", "throwing"}}


-----------------------------------------------------------------------------
(* One detector instance of each class, called by any caller               *)
(*                                                                         *)
(* No analyze method awaits anything, so a call runs from its first        *)
(* statement to its return or throw before another call on the same thread *)
(* starts.  A call is split at its createPattern calls, where the clock is *)
(* read.                                                                   *)

\* The milliseconds that pass while the calls are observed.
MaxClock == 2

\* `${this.id}-${file}-${startLine}-${Date.now()}`
patternId(detectorId, file, startLine, now) ==
    <<detectorId, file, startLine, now>>

\* A clean-up that is skipped when a check has thrown.
removeSourceFileOnReturn(entries, filePath) ==
    IF run.threw THEN entries ELSE entries \ {filePath}

\* project.removeSourceFile in the finally block of analyze
removeSourceFile(entries, filePath) == entries \ {filePath}

DetectorInit == Init

\* analyze up to the first createPattern call (entered: the sets the naming
\* instance held when the call was made).  The naming detector
\* rebuilds its sets; the security detector returns at once for a file it
\* skips; every other call puts the text into the detector's Project.
Analyze(detector, source, filePath, settings) ==
    LET sets == IF detector = "naming"
                THEN initializeSets(namingSets, settings) ELSE namingSets
        call == [detector |-> detector, source |-> source,
                 filePath |-> filePath, settings |-> settings,
                 entered |-> namingSets, patterns |-> <<>>, threw |-> FALSE]
    IN  /\ run.pc \in {"idle", "returned", "failed"}
        /\ namingSets' = sets
        /\ IF detector = "security" /\ shouldSkipFile(filePath)
           THEN /\ run' = call @@ [pc |-> "returned", pending |-> <<>>]
                /\ UNCHANGED project
           ELSE /\ run' = call @@ [pc |-> "checking",
                                   pending |->
                                     Checks(detector, sets, Sources[source])]
                /\ project' = [project EXCEPT ![detector] = @ \cup {filePath}]
        /\ UNCHANGED <<componentVars, config, calls, clock>>

\* The next createPattern call of the checks.
CreatePattern ==
    LET args == Head(run.pending)
        pattern ==
            createPattern(run.detector, args.type, args.line, args.severity)
                @@ [id |-> patternId(run.detector, run.filePath, args.line,
                                     clock),
                    file |-> run.filePath,
                    codeSnippet |-> args.snippet]
                @@ (IF "fields" \in DOMAIN args THEN args.fields ELSE Absent)
    IN  /\ run.pc = "checking"
        /\ run.pending # <<>>
        /\ run' = [run EXCEPT !.pending = Tail(@),
                              !.patterns = Append(@, pattern)]
        /\ UNCHANGED <<componentVars, config, namingSets, calls, project, clock>>

\* A millisecond passes while a call is executing.
Tick ==
    /\ run.pc = "checking"
    /\ clock < MaxClock
    /\ clock' = clock + 1
    /\ UNCHANGED <<componentVars, config, namingSets, calls, project, run>>

\* A check throws: control passes to the finally block.
Throw ==
    /\ run.pc = "checking"
    /\ run.detector \in Sources[run.source].throws
    /\ run' = [run EXCEPT !.pc = "finally", !.threw = TRUE]
    /\ UNCHANGED <<componentVars, config, namingSets, calls, project, clock>>

\* The last check has finished.
Done ==
    /\ run.pc = "checking"
    /\ run.pending = <<>>
    /\ run.detector \notin Sources[run.source].throws
    /\ run' = [run EXCEPT !.pc = "finally"]
    /\ UNCHANGED <<componentVars, config, namingSets, calls, project, clock>>

\* The finally block, then the return of the patterns or the rethrow.
Finally ==
    /\ run.pc = "finally"
    /\ project' = [project EXCEPT
                     ![run.detector] = removeSourceFile(@, run.filePath)]
    /\ run' = [run EXCEPT !.pc = IF run.threw THEN "failed" ELSE "returned",
                          !.patterns = IF run.threw THEN <<>> ELSE @]
    /\ UNCHANGED <<componentVars, config, namingSets, calls, clock>>

DetectorNext ==
    \/ \E call \in AnalyzeCalls :
          Analyze(call.detector, call.source, call.filePath, call.settings)
    \/ CreatePattern
    \/ Tick
    \/ Throw
    \/ Done
    \/ Finally

DetectorSpec == DetectorInit /\ [][DetectorNext]_vars


-----------------------------------------------------------------------------
(* Properties of the detectors                                             *)

\* The call has returned its patterns to the caller.
Returned == run.pc = "returned"

\* C11: no two patterns that one analyze call returns, and so no two
\* patterns of one analyzeFile result, have the same id; two findings of the
\* same detector on the same start line of the same file included.
C11_UniqueIds ==
    Returned =>
        \A i \in 1..Len(run.patterns), j \in 1..Len(run.patterns) :
            i # j => run.patterns[i].id # run.patterns[j].id


\* What the caller reads of a pattern, the id aside.
Reported(patterns) ==
    [i \in 1..Len(patterns) |->
        [type |-> patterns[i].type, severity |-> patterns[i].severity,
         startLine |-> patterns[i].startLine,
         codeSnippet |-> patterns[i].codeSnippet]]

\* What analyze returns on an instance that has just been constructed.
FreshPatterns(detector, source, filePath, settings) ==
    LET found ==
            IF detector = "security" /\ shouldSkipFile(filePath) THEN <<>>
            ELSE Checks(detector, initializeSets(UnsetSets, settings),
                        Sources[source])
    IN  [i \in 1..Len(found) |->
            [type |-> found[i].type, severity |-> found[i].severity,
             startLine |-> found[i].line, codeSnippet |-> found[i].snippet]]

\* C12: the patterns a call on a reused instance returns are the patterns
\* a new instance returns for the same content, path and settings, whatever
\* calls the instance has served before.
C12_NoRetainedState ==
    Returned =>
        Reported(run.patterns)
            = FreshPatterns(run.detector, run.source, run.filePath,
                            run.settings)

\* A naming call has returned findings on an instance whose sets had been
\* built from other settings, sets under which the findings differ.
C12_Witness ==
    /\ Returned
    /\ run.detector = "naming"
    /\ run.patterns # <<>>
    /\ run.entered # initializeSets(UnsetSets, run.settings)
    /\ NamingChecks(run.entered, Sources[run.source])
          # NamingChecks(namingSets, Sources[run.source])


\* C13: once an analyze call has returned or failed, the Project of its
\* detector holds no entry for the call's path, and no Project holds any
\* entry; a call in which a check threw included.
C13_EntryReleased ==
    run.pc \in {"returned", "failed"} =>
        /\ run.filePath \notin project[run.detector]
        /\ \A detector \in Range(Detectors) : project[detector] = {}

\* A call has failed because a check threw after the entry was created.
C13_Witness ==
    /\ run.pc = "failed"
    /\ run.threw
    /\ ~(run.detector = "security" /\ shouldSkipFile(run.filePath))


\* The call has returned a pattern of the type for the line.
ReportedAt(type, line) ==
    \E i \in 1..Len(run.patterns) :
        run.patterns[i].type = type /\ run.patterns[i].startLine = line

\* C14: the list a detector uses is the built-in list extended by the
\* entries of the call's settings.  The naming detector's three sets are
\* the unions; a string literal in an error context whose text is a
\* generic error message of the settings is reported; a line that matches a
\* secret pattern of the settings is reported.
C14_SettingsExtendDefaults ==
    Returned =>
        LET source == Sources[run.source]
            settings == run.settings
        IN  /\ run.detector = "naming" =>
                /\ namingSets.genericVariableNames
                      = DEFAULT_GENERIC_VARIABLE_NAMES
                          \cup {toLowerCase(s) :
                                  s \in settings.genericVariableNames}
                /\ namingSets.loopVariableNames
                      = DEFAULT_LOOP_VARIABLE_NAMES
                          \cup settings.loopVariableNames
                /\ namingSets.coordinateVariableNames
                      = DEFAULT_COORDINATE_VARIABLE_NAMES
                          \cup settings.coordinateVariableNames
            /\ run.detector = "error_handling" =>
                \A i \in 1..Len(source.literals) :
                    LET literal == source.literals[i]
                    IN  /\ isInErrorContext(literal)
                        /\ toLowerCase(literal.text)
                              \in {toLowerCase(msg) :
                                     msg \in settings.genericErrorMessages}
                        => ReportedAt("generic_error_message", literal.line)
            /\ run.detector = "security" /\ ~shouldSkipFile(run.filePath) =>
                \A index \in 1..Len(source.lines) :
                    /\ \E pattern \in settings.secretPatterns :
                          exec(pattern, source.lines[index]) # <<>>
                    /\ ~isEnvironmentVariable(source.lines[index])
                    => ReportedAt("hardcoded_secret", index)


\* C15: for a test, configuration or example file the security detector
\* reports no hardcoded secret, and reports what its SQL concatenation,
\* unsafe eval and insecure random checks find in the text.
C15_SkipsSecretsOnly ==
    Returned /\ run.detector = "security" /\ shouldSkipFile(run.filePath) =>
        LET source == Sources[run.source]
            others == detectSqlConcatenation(source)
                        \o detectUnsafeEval(source)
                        \o detectInsecureRandom(source)
        IN  /\ \A i \in 1..Len(run.patterns) :
                  run.patterns[i].type # "hardcoded_secret"
            /\ \A k \in 1..Len(others) :
                  ReportedAt(others[k].type, others[k].line)


\* The secret values a line of the text holds: the quoted value of the
\* key/value pattern that matches it, the token after Bearer, and the text
\* of every string literal on the line with the shape of a JWT or of an AWS
\* key.
SecretValues(source, index) ==
    LET line == source.lines[index]
        p == FirstMatching(line)
        match == exec(SECRET_PATTERNS[p], line)
        matched ==
            IF p = 0 \/ isEnvironmentVariable(line) THEN {}
            ELSE IF SECRET_PATTERNS[p].kind = "keyValue"
                THEN {QuotedValue(match)}
            ELSE IF SECRET_PATTERNS[p].kind = "bearer"
                THEN {SubSeq(match, SkipSpaces(match, 7), Len(match))}
            ELSE {}
        literals ==
            {source.literals[i].text : i \in
                {k \in 1..Len(source.literals) :
                    /\ source.literals[k].line = index
                    /\ \/ IsJwt(source.literals[k].text)
                       \/ IsAwsKey(source.literals[k].text)}}
    IN  matched \cup literals

\* C16: the snippet of a hardcoded_secret pattern does not contain a secret
\* value of its line, whatever the length of the value, wherever else its
\* text occurs on the line and whichever pattern matched.
C16_SnippetMasked ==
    Returned /\ run.detector = "security" =>
        \A i \in 1..Len(run.patterns) :
            run.patterns[i].type = "hardcoded_secret" =>
                \A value \in SecretValues(Sources[run.source],
                                          run.patterns[i].startLine) :
                    ~Contains(run.patterns[i].codeSnippet, value)


\* The patterns of the type that the call has returned for the line.
CountAt(type, line) ==
    Cardinality({i \in 1..Len(run.patterns) :
                    /\ run.patterns[i].type = type
                    /\ run.patterns[i].startLine = line})

\* The name the catch clause binds occurs among the identifiers of its
\* block.
ReferencesError(catchClause) ==
    /\ catchClause.errorParam # <<>>
    /\ \E i \in 1..Len(catchClause.block) :
          catchClause.errorParam
              \in Range(catchClause.block[i].identifiers)

InContextException(sets, source, k) ==
    \/ k \in source.loopControl
    \/ isAcceptableContext(sets, source.decls[k], source.decls[k].name)

OnDenylist(sets, name) == toLowerCase(name) \in sets.genericVariableNames

C19_LoopControlSuppressed ==
    Returned /\ run.detector = "naming" =>
        \A k \in Sources[run.source].loopControl :
            CountAt("generic_variable_name",
                    Sources[run.source].decls[k].line) = 0


CountKind(func, kinds) ==
    Cardinality({k \in 1..Len(func.descendants) :
                    func.descendants[k] \in kinds})

\* The body is if/else nested four levels deep and a for loop that holds a
\* switch with four cases, and nothing else that branches.
NestedFourWithSwitch(func) ==
    /\ CountKind(func, {"IfStatement"}) = 4
    /\ CountKind(func, {"ForStatement"}) = 1
    /\ CountKind(func, {"SwitchStatement"}) = 1
    /\ CountKind(func, {"CaseClause", "DefaultClause"}) = 4
    /\ CountKind(func, DecisionKinds)
          = 5 + CountKind(func, {"CaseClause"})

\* C20: such a function has cyclomatic complexity of at least 10 and is
\* reported as overly_complex_function at warning, at critical when its
\* complexity is above 20.
C20_NestedFunctionReported ==
    Returned /\ run.detector = "code_quality" =>
        \A k \in 1..Len(Sources[run.source].functions) :
            LET func == Sources[run.source].functions[k]
                complexity == calculateCyclomaticComplexity(func)
            IN  NestedFourWithSwitch(func) =>
                    /\ complexity >= 10
                    /\ \E i \in 1..Len(run.patterns) :
                          /\ run.patterns[i].type = "overly_complex_function"
                          /\ run.patterns[i].startLine = func.line
                          /\ run.patterns[i].severity
                                = IF complexity > 20 THEN "critical"
                                  ELSE "warning"


\* The complexity as the sum of its parts: one, one per branching node and
\* one per short-circuit operator.
BranchKinds ==
    {"IfStatement", "ConditionalExpression", "ForStatement",
     "ForInStatement", "ForOfStatement", "WhileStatement", "DoStatement",
     "CaseClause", "CatchClause"}

Complexity(func) ==
    1 + CountKind(func, BranchKinds) + CountKind(func, {"&&", "||"})

ComplexAt(line) ==
    {i \in 1..Len(run.patterns) :
        /\ run.patterns[i].type = "overly_complex_function"
        /\ run.patterns[i].startLine = line}

\* C21: the complexity of a function is 1 plus the number of if, ternary,
\* for, for-in, for-of, while, do-while, switch-case and catch nodes among
\* its descendants plus one per && and ||; the function is reported as
\* overly_complex_function exactly when that is above 10, at warning up to
\* 20 and at critical above 20.
C21_ComplexityReported ==
    Returned /\ run.detector = "code_quality" =>
        \A k \in 1..Len(Sources[run.source].functions) :
            LET func == Sources[run.source].functions[k]
            IN  /\ calculateCyclomaticComplexity(func) = Complexity(func)
                /\ Cardinality(ComplexAt(func.line))
                      = IF Complexity(func) > 10 THEN 1 ELSE 0
                /\ \A i \in ComplexAt(func.line) :
                      /\ run.patterns[i].complexity = Complexity(func)
                      /\ run.patterns[i].severity
                            = IF Complexity(func) > 20 THEN "critical"
                              ELSE "warning"

\* A call returned findings for functions of complexity 10, 20 and 21: the
\* first is not reported, the second is a warning, the third critical.
C21_Witness ==
    /\ Returned /\ run.detector = "code_quality"
    /\ \E a, b, c \in 1..Len(Sources[run.source].functions) :
          LET F(k) == Sources[run.source].functions[k]
          IN  /\ Complexity(F(a)) = 10 /\ ComplexAt(F(a).line) = {}
              /\ Complexity(F(b)) = 20
              /\ \E i \in ComplexAt(F(b).line) :
                    run.patterns[i].severity = "warning"
              /\ Complexity(F(c)) = 21
              /\ \E i \in ComplexAt(F(c).line) :
                    run.patterns[i].severity = "critical"


\* The maximal runs of commented-code lines of the source of the call, as
\* pairs of the first and last line (1-based).
CommentedRuns ==
    LET commented == Sources[run.source].commented
        Is(n) == n \in 1..Len(commented) /\ commented[n]
    IN  {r \in (1..Len(commented)) \X (1..Len(commented)) :
            /\ r[1] <= r[2]
            /\ \A n \in r[1]..r[2] : Is(n)
            /\ ~Is(r[1] - 1) /\ ~Is(r[2] + 1)}

CommentedFindings ==
    {i \in 1..Len(run.patterns) : run.patterns[i].type = "commented_out_code"}

\* C22: every maximal run of three or more commented-code lines yields
\* exactly one commented_out_code finding, at info, from the first line of
\* the run to its last, also when the run ends at the last line of the
\* file; a shorter run yields none.
C22_RunsReported ==
    Returned /\ run.detector = "code_quality" =>
        /\ \A r \in CommentedRuns :
              Cardinality({i \in CommentedFindings :
                              run.patterns[i].startLine \in r[1]..r[2]})
                 = IF r[2] - r[1] + 1 >= 3 THEN 1 ELSE 0
        /\ \A i \in CommentedFindings :
              /\ run.patterns[i].severity = "info"
              /\ <<run.patterns[i].startLine, run.patterns[i].endLine>>
                    \in CommentedRuns

\* A call returned with a run of three lines inside the file reported, a run
\* of two lines not reported, and a run that ends at the last line reported.
C22_Witness ==
    /\ Returned /\ run.detector = "code_quality"
    /\ \E r, s, t \in CommentedRuns :
          /\ r[2] - r[1] + 1 = 3 /\ r[2] < Len(Sources[run.source].commented)
          /\ \E i \in CommentedFindings :
                /\ run.patterns[i].startLine = r[1]
                /\ run.patterns[i].endLine = r[2]
          /\ s[2] - s[1] + 1 = 2
          /\ t[2] = Len(Sources[run.source].commented)
          /\ \E i \in CommentedFindings :
                /\ run.patterns[i].startLine = t[1]
                /\ run.patterns[i].endLine = t[2]


PlaceholderAt(line, severity) ==
    \E i \in 1..Len(run.patterns) :
        /\ run.patterns[i].type = "placeholder_implementation"
        /\ run.patterns[i].startLine = line
        /\ run.patterns[i].severity = severity

\* C23: the placeholder checks are independent: a function whose body
\* throws not-implemented and holds a TODO: implement|add|fix|complete
\* comment is reported at critical and at warning.
C23_ChecksIndependent ==
    Returned /\ run.detector = "code_quality" =>
        \A k \in 1..Len(Sources[run.source].functions) :
            LET func == Sources[run.source].functions[k]
            IN  /\ func.body.notImplemented => PlaceholderAt(func.line, "critical")
                /\ func.body.todo => PlaceholderAt(func.line, "warning")


-----------------------------------------------------------------------------
(* Analyzer.summarize                                                      *)

\* allPatterns.forEach: the counters after the patterns from index k on.
RECURSIVE countPatterns(_, _, _, _)
countPatterns(allPatterns, k, bySeverity, byType) ==
    IF k > Len(allPatterns)
    THEN [bySeverity |-> bySeverity, byType |-> byType]
    ELSE LET p == allPatterns[k]
             before == IF p.type \in DOMAIN byType THEN byType[p.type] ELSE 0
         IN  countPatterns(allPatterns, k + 1,
                 [bySeverity EXCEPT ![p.severity] = @ + 1],
                 [t \in DOMAIN byType \cup {p.type} |->
                     IF t = p.type THEN before + 1 ELSE byType[t]])

RECURSIVE SumDuration(_, _)
SumDuration(list, k) ==
    IF k > Len(list) THEN 0 ELSE list[k].durationMs + SumDuration(list, k + 1)

\* A summary that counts every result's first pattern only.
summarizeFirstPatterns(list) ==
    LET allPatterns ==
            FlatMap([i \in 1..Len(list) |->
                        IF list[i].patterns = <<>> THEN <<>>
                        ELSE <<Head(list[i].patterns)>>])
        counted == countPatterns(allPatterns, 1,
                                 [info |-> 0, warning |-> 0, critical |-> 0],
                                 Absent)
    IN  [totalFiles |-> Len(list),
         totalPatterns |-> Len(allPatterns),
         bySeverity |-> counted.bySeverity,
         byType |-> counted.byType,
         totalDurationMs |-> SumDuration(list, 1)]

summarize(list) ==
    LET allPatterns == FlatMap([i \in 1..Len(list) |-> list[i].patterns])
        counted == countPatterns(allPatterns, 1,
                                 [info |-> 0, warning |-> 0, critical |-> 0],
                                 Absent)
    IN  [totalFiles |-> Len(list),
         totalPatterns |-> Len(allPatterns),
         bySeverity |-> counted.bySeverity,
         byType |-> counted.byType,
         totalDurationMs |-> SumDuration(list, 1)]

\* Results as analyzeFile returns them.
Finding(type, severity, startLine) ==
    [type |-> type, severity |-> severity, startLine |-> startLine]

AnalysisResult(file, patterns, durationMs) ==
    [file |-> file, patterns |-> patterns, durationMs |-> durationMs]

ResultClean == AnalysisResult("clean.ts", <<>>, 1)

ResultSecret ==
    AnalysisResult("keys.ts", <<Finding("hardcoded_secret", "critical", 3)>>,
                   2)

ResultMixed ==
    AnalysisResult("mixed.ts",
                   <<Finding("empty_catch_block", "critical", 9),
                     Finding("generic_variable_name", "warning", 2),
                     Finding("generic_variable_name", "warning", 5),
                     Finding("magic_number", "info", 7)>>, 3)

ResultNames ==
    AnalysisResult("names.ts",
                   <<Finding("generic_variable_name", "warning", 1),
                     Finding("magic_number", "info", 4)>>, 0)

AnalysisResults == {ResultClean, ResultSecret, ResultMixed, ResultNames}

\* The longest list of results passed to summarize.
MaxResults == 3

ResultLists ==
    UNION {[1..n -> AnalysisResults] : n \in 0..MaxResults}

SummarizeInit ==
    /\ Constructed
    /\ analysisResults \in ResultLists
    /\ summary = [returned |-> FALSE]
    /\ BesidesSummaryIdle

\* const summary = analyzer.summarize(results)
Summarize ==
    /\ ~summary.returned
    /\ summary' = [returned |-> TRUE, value |-> summarize(analysisResults),
                   given |-> analysisResults]
    /\ UNCHANGED <<analysisResults, besidesSummary>>

SummarizeNext == Summarize

SummarizeSpec == SummarizeInit /\ [][SummarizeNext]_vars

RECURSIVE SumOver(_, _)
SumOver(counts, keys) ==
    IF keys = {} THEN 0
    ELSE LET key == CHOOSE k \in keys : TRUE
         IN  counts[key] + SumOver(counts, keys \ {key})

RECURSIVE PatternCounts(_, _)
PatternCounts(list, k) ==
    IF k > Len(list) THEN 0
    ELSE Len(list[k].patterns) + PatternCounts(list, k + 1)

\* C24: summarize is a pure aggregation: totalFiles is the number of
\* results, totalPatterns the sum of their pattern counts, the bySeverity
\* counts and the byType counts each sum to totalPatterns, and the results
\* and the analyzer's state are as before the call.
C24_PureAggregation ==
    summary.returned =>
        /\ summary.value.totalFiles = Len(summary.given)
        /\ summary.value.totalPatterns = PatternCounts(summary.given, 1)
        /\ SumOver(summary.value.bySeverity,
                   DOMAIN summary.value.bySeverity)
              = summary.value.totalPatterns
        /\ SumOver(summary.value.byType, DOMAIN summary.value.byType)
              = summary.value.totalPatterns
        /\ analysisResults = summary.given
        /\ Constructed

\* A summary of three results with findings of two types in several files.
C24_Witness ==
    /\ summary.returned
    /\ summary.value.totalFiles = 3
    /\ summary.value.totalPatterns = 7
    /\ summary.value.byType["generic_variable_name"] = 3
    /\ summary.value.bySeverity["critical"] = 2


-----------------------------------------------------------------------------
(* CheckpointPanel and the script of its webview                           *)

\* The panel reads the severity of a pattern; a list of patterns is the
\* sequence of their severities.
CountSeverity(patterns, severity) ==
    Cardinality({i \in 1..Len(patterns) : patterns[i] = severity})

\* The document getHtmlContent renders: one checkbox per pattern in the
\* order of the list, checked unless the pattern is critical; the button is
\* disabled when there is a critical pattern.
getHtmlContent(patterns) ==
    [checkboxes |-> [i \in 1..Len(patterns) |-> patterns[i] # "critical"],
     criticalCount |-> CountSeverity(patterns, "critical"),
     disabled |-> CountSeverity(patterns, "critical") > 0]

\* filter((cb, i) => i < criticalCount).every(cb => cb.checked), with the
\* 0-based index of the checkbox in the document.
updateProceedButton(document) ==
    LET criticalChecked ==
            \A i \in 1..Len(document.checkboxes) :
                i - 1 < document.criticalCount => document.checkboxes[i]
    IN  [document EXCEPT !.disabled = ~criticalChecked]

\* The values of the checked checkboxes.
Acknowledged(document) ==
    {i - 1 : i \in {j \in 1..Len(document.checkboxes) :
                        document.checkboxes[j]}}

NoPanel == [open |-> FALSE]
NoDocument == [checkboxes |-> <<>>, criticalCount |-> 0, disabled |-> TRUE]
NoMessage == [type |-> "none"]

\* Number of createOrShow calls.
MaxCheckpoints == 2

PatternLists ==
    {<<"critical", "warning">>, <<"warning", "critical">>,
     <<"warning", "info">>, <<"critical", "info", "critical">>}

PanelInit ==
    /\ Constructed
    /\ BesidesPanelIdle
    /\ currentPanel = NoPanel
    /\ promises = <<>>
    /\ webview = NoDocument
    /\ posted = NoMessage

\* createOrShow and showCheckpoint: the panel that exists is revealed, or
\* one is created; the checkpoint, the document and resolvePromise are
\* replaced, and a new promise is returned.
createOrShow(patterns) ==
    /\ Len(promises) < MaxCheckpoints
    /\ promises' = Append(promises,
                          [patterns |-> patterns, status |-> "pending"])
    /\ currentPanel' = [open |-> TRUE, checkpoint |-> patterns,
                        resolvePromise |-> Len(promises) + 1]
    /\ webview' = getHtmlContent(patterns)
    /\ UNCHANGED <<posted, besidesPanel>>

\* The user changes a checkbox: its change listener runs.
Change(i) ==
    /\ currentPanel.open
    /\ i \in 1..Len(webview.checkboxes)
    /\ webview' = updateProceedButton(
                     [webview EXCEPT !.checkboxes[i] = ~@])
    /\ UNCHANGED <<currentPanel, promises, posted, besidesPanel>>

\* A click on the Proceed button, which a disabled button does not take.
ClickProceed ==
    /\ currentPanel.open
    /\ ~webview.disabled
    /\ posted = NoMessage
    /\ posted' = [type |-> "proceed", acknowledged |-> Acknowledged(webview)]
    /\ UNCHANGED <<currentPanel, promises, webview, besidesPanel>>

\* A click on Confirm skip, or on Cancel commit.
Click(type) ==
    /\ currentPanel.open
    /\ posted = NoMessage
    /\ posted' = [type |-> type]
    /\ UNCHANGED <<currentPanel, promises, webview, besidesPanel>>

\* resolve(result) of the promise a resolvePromise belongs to: a promise
\* that is settled stays as it is.
Resolve(list, k, result) ==
    IF list[k].status = "pending"
    THEN [list EXCEPT ![k] = result @@ [patterns |-> @.patterns]]
    ELSE list

\* handleMessage: the promise of resolvePromise is resolved and the panel
\* disposed.
handleMessage ==
    /\ currentPanel.open
    /\ posted # NoMessage
    /\ promises' =
          Resolve(promises, currentPanel.resolvePromise,
                  CASE posted.type = "proceed" ->
                          [status |-> "passed",
                           acknowledgedPatterns |-> posted.acknowledged]
                    [] posted.type = "skip" -> [status |-> "skipped"]
                    [] posted.type = "cancel" -> [status |-> "failed"])
    /\ currentPanel' = NoPanel
    /\ webview' = NoDocument
    /\ posted' = NoMessage
    /\ UNCHANGED besidesPanel

\* The user closes the panel: onDidDispose calls dispose, which clears
\* currentPanel and disposes the listeners.
dispose ==
    /\ currentPanel.open
    /\ currentPanel' = NoPanel
    /\ webview' = NoDocument
    /\ posted' = NoMessage
    /\ UNCHANGED <<promises, besidesPanel>>

PanelNext ==
    \/ \E patterns \in PatternLists : createOrShow(patterns)
    \/ \E i \in 1..3 : Change(i)
    \/ ClickProceed
    \/ \E type \in {"skip", "cancel"} : Click(type)
    \/ handleMessage
    \/ dispose

PanelSpec == PanelInit /\ [][PanelNext]_vars

CriticalIndexes(patterns) ==
    {i - 1 : i \in {j \in 1..Len(patterns) : patterns[j] = "critical"}}

-----------------------------------------------------------------------------
(* getModifiedLineRanges, mergeRanges, isLineModified                      *)

\* rangeStart and rangeEnd when they are null.
Null == -1

LineRange(start, end) == [start |-> start, end |-> end]

\* The loop over the lines of one hunk from index k on, and the push that
\* follows it.
RECURSIVE hunkRanges(_, _, _, _)
hunkRanges(lines, k, rangeStart, rangeEnd) ==
    IF k > Len(lines)
    THEN IF rangeStart # Null /\ rangeEnd # Null
         THEN <<LineRange(rangeStart, rangeEnd)>> ELSE <<>>
    ELSE IF lines[k].type = "add" /\ "newLineNumber" \in DOMAIN lines[k]
    THEN hunkRanges(lines, k + 1,
                    IF rangeStart = Null THEN lines[k].newLineNumber
                    ELSE rangeStart,
                    lines[k].newLineNumber)
    ELSE IF rangeStart # Null /\ rangeEnd # Null
    THEN <<LineRange(rangeStart, rangeEnd)>>
            \o hunkRanges(lines, k + 1, Null, Null)
    ELSE hunkRanges(lines, k + 1, rangeStart, rangeEnd)

\* [...ranges].sort((a, b) => a.start - b.start): a stable sort.
RECURSIVE sortByStart(_)
sortByStart(list) ==
    IF list = <<>> THEN <<>>
    ELSE LET rest == sortByStart(Tail(list))
             first == Head(list)
             before == SelectSeq(rest, LAMBDA r : r.start < first.start)
             after == SelectSeq(rest, LAMBDA r : r.start >= first.start)
         IN  before \o <<first>> \o after

Larger(a, b) == IF a >= b THEN a ELSE b

\* The loop of mergeRanges from index i on.
RECURSIVE mergeFrom(_, _, _, _)
mergeFrom(list, i, merged, within) ==
    IF i > Len(list) THEN merged
    ELSE LET current == list[i]
             last == merged[Len(merged)]
         IN  IF current.start <= last.end + within
             THEN mergeFrom(list, i + 1,
                     [merged EXCEPT ![Len(merged)].end =
                         Larger(last.end, current.end)], within)
             ELSE mergeFrom(list, i + 1, Append(merged, current), within)

\* A merge of the ranges that overlap or touch only.
mergeRangesTouching(list) ==
    IF list = <<>> THEN <<>>
    ELSE mergeFrom(sortByStart(list), 2, <<Head(sortByStart(list))>>, 1)

mergeRanges(list) ==
    IF list = <<>> THEN <<>>
    ELSE mergeFrom(sortByStart(list), 2, <<Head(sortByStart(list))>>, 3)

getModifiedLineRanges(diff) ==
    mergeRanges(FlatMap([h \in 1..Len(diff) |->
                            hunkRanges(diff[h].lines, 1, Null, Null)]))

isLineModified(lineNumber, list) ==
    \E i \in 1..Len(list) :
        lineNumber >= list[i].start /\ lineNumber <= list[i].end

\* The lines of a hunk as parseGitDiff numbers them: an added line and a
\* context line take the next number of the new file, a removed line none.
RECURSIVE numberLines(_, _)
numberLines(kinds, newLineNumber) ==
    IF kinds = <<>> THEN <<>>
    ELSE IF Head(kinds) = "remove"
    THEN <<[type |-> "remove"]>> \o numberLines(Tail(kinds), newLineNumber)
    ELSE <<[type |-> Head(kinds), newLineNumber |-> newLineNumber]>>
            \o numberLines(Tail(kinds), newLineNumber + 1)

Hunk(startLine, kinds) ==
    [startLine |-> startLine, lines |-> numberLines(kinds, startLine)]

\* The number of lines of the first hunk of a diff.
MaxHunkLines == 5

\* The line of the new file after the last of a hunk.
NextLine(hunk) ==
    hunk.startLine
        + Cardinality({k \in 1..Len(hunk.lines) :
                          hunk.lines[k].type # "remove"})

\* One hunk, or two with 1 to 3 unchanged lines that no hunk shows between.
Diffs ==
    LET firstHunks ==
            {Hunk(1, kinds) :
                kinds \in [1..MaxHunkLines -> {"add", "context", "remove"}]}
    IN  {<<first>> : first \in firstHunks}
            \cup {<<first, Hunk(NextLine(first) + gap, kinds)>> :
                    first \in firstHunks, gap \in 1..3,
                    kinds \in {<<"add">>, <<"context", "add">>}}

DiffInit ==
    /\ Constructed
    /\ BesidesDiffIdle
    /\ gitDiff \in Diffs
    /\ lineRanges = [returned |-> FALSE]

\* const ranges = getModifiedLineRanges(diff)
GetModifiedLineRanges ==
    /\ ~lineRanges.returned
    /\ lineRanges' = [returned |-> TRUE,
                      ranges |-> getModifiedLineRanges(gitDiff)]
    /\ UNCHANGED <<gitDiff, besidesDiff>>

DiffNext == GetModifiedLineRanges

DiffSpec == DiffInit /\ [][DiffNext]_vars

AddedLines ==
    UNION {{gitDiff[h].lines[k].newLineNumber :
                k \in {j \in 1..Len(gitDiff[h].lines) :
                          gitDiff[h].lines[j].type = "add"}} :
           h \in 1..Len(gitDiff)}

\* Two added lines with no added line between them.
Neighbours ==
    {p \in AddedLines \X AddedLines :
        p[1] < p[2] /\ \A n \in AddedLines : ~(p[1] < n /\ n < p[2])}

SameRange(a, b) ==
    \E i \in 1..Len(lineRanges.ranges) :
        /\ lineRanges.ranges[i].start <= a
        /\ b <= lineRanges.ranges[i].end

SortedCovering ==
    /\ \A i, j \in 1..Len(lineRanges.ranges) :
          i < j => lineRanges.ranges[i].start < lineRanges.ranges[j].start
    /\ \A n \in AddedLines : isLineModified(n, lineRanges.ranges)

\* C26 as stated: runs of added lines with at most 3 lines between them are
\* merged and runs further apart stay separate.
C26_AsStated ==
    lineRanges.returned =>
        /\ SortedCovering
        /\ \A p \in Neighbours : SameRange(p[1], p[2]) <=> p[2] - p[1] - 1 <= 3

\* C26: the ranges are sorted by start, every added line lies inside one of
\* them (isLineModified is true for it), and a run of added lines is merged
\* with the run before it exactly when it starts at most 3 lines after the
\* last line of that run, that is with at most 2 lines between them.
C26_RangesMerged ==
    lineRanges.returned =>
        /\ SortedCovering
        /\ \A p \in Neighbours : SameRange(p[1], p[2]) <=> p[2] - p[1] <= 3

\* Ranges were returned for a diff with a run that starts 3 lines after the
\* run before it, merged, and a run that starts 4 lines after, separate.
C26_Witness ==
    /\ lineRanges.returned
    /\ \E p, q \in Neighbours :
          /\ p[2] - p[1] = 3 /\ SameRange(p[1], p[2])
          /\ q[2] - q[1] = 4 /\ ~SameRange(q[1], q[2])


\* The extension host delivers a posted message as long as the panel has
\* its listener; the user is under no obligation to answer or to close.
PanelLiveSpec == PanelSpec /\ WF_vars(handleMessage)

\* The checkpoint of the k-th promise is over: the promise was returned and
\* the panel, if there is one, shows another checkpoint.
Over(k) ==
    /\ k <= Len(promises)
    /\ ~(currentPanel.open /\ currentPanel.resolvePromise = k)

Resolved(k) == k <= Len(promises) /\ promises[k].status # "pending"

\* C27: every promise createOrShow returned is resolved once its checkpoint
\* is over: after the user's answer, after the panel was closed without an
\* answer, and after a later createOrShow replaced the checkpoint.
C27_PromiseResolved ==
    \A k \in 1..MaxCheckpoints : Over(k) ~> Resolved(k)


-----------------------------------------------------------------------------
(* GitService.installHook and uninstallHook                                *)

\* The text of a hook file is a sequence of pieces: a line break, a blank,
\* one of the two marker comments, or a run of other characters.
MarkerCodeGateway == "# CodeGateway hook"
MarkerOriginal == "# Original hook"

Whitespace == {"\n", " "}

NoFile == [exists |-> FALSE]
HookFile(content) == [exists |-> TRUE, content |-> content]

includes(content, piece) == \E i \in 1..Len(content) : content[i] = piece

\* content.indexOf(piece, from) as a 1-based position, 0 when there is none.
indexOf(content, piece, from) ==
    LET hits == {i \in from..Len(content) : content[i] = piece}
    IN  IF hits = {} THEN 0 ELSE Min(hits)

\* existingContent.trim() is not the empty string.
trimmedNonEmpty(content) ==
    \E i \in 1..Len(content) : content[i] \notin Whitespace

\* content, two line breaks, the marker line, the existing text.
chainedContent(content, existingContent) ==
    content \o <<"\n", "\n", MarkerOriginal, "\n">> \o existingContent

\* content.substring(cgEnd + '# Original hook\n'.length): the text after
\* the marker and the one character that follows it.
afterOriginalMarker(content, cgEnd) ==
    SubSeq(content, cgEnd + 2, Len(content))

\* What installHook writes for the text it read.
installedContent(content, existingContent) ==
    IF includes(existingContent, MarkerCodeGateway) THEN content
    ELSE IF trimmedNonEmpty(existingContent)
    THEN chainedContent(content, existingContent)
    ELSE content

\* The file uninstallHook leaves for the text it read.
uninstalledFile(content) ==
    LET cgStart == indexOf(content, MarkerCodeGateway, 1)
        cgEnd == IF cgStart = 0 THEN 0
                 ELSE indexOf(content, MarkerOriginal, cgStart)
    IN  IF cgStart = 0 THEN HookFile(content)
        ELSE IF cgEnd # 0 THEN HookFile(afterOriginalMarker(content, cgEnd))
        ELSE NoFile

\* hooks/pre-commit.sh, and a later version of it.
PreCommitHook ==
    <<"#!/bin/sh", "\n", MarkerCodeGateway, " - AI Code Review Trust Layer",
      "\n", "codegateway analyze --staged", "\n">>

PreCommitHookUpdated ==
    <<"#!/bin/sh", "\n", MarkerCodeGateway, " - AI Code Review Trust Layer",
      "\n", "codegateway analyze --staged --strict", "\n">>

HookContents == {PreCommitHook, PreCommitHookUpdated}

\* Hook files of the repository before CodeGateway: none, a test runner, a
\* file with a line break only, a hook that has a comment of its own.
OriginalHooks ==
    {NoFile,
     HookFile(<<"#!/bin/sh", "\n", "npm test", "\n">>),
     HookFile(<<"\n">>),
     HookFile(<<"#!/bin/sh", "\n", "# lint", "\n", "npm run lint", "\n">>)}

\* Number of installHook calls.
MaxInstalls == 3

NoCall == [op |-> "none"]

HookInit ==
    /\ Constructed
    /\ BesidesHookIdle
    /\ hookFile \in OriginalHooks
    /\ hookCall = NoCall
    /\ hookHistory = [original |-> hookFile, installs |-> 0, uninstalls |-> 0]

\* installHook up to the end of readFile: a file that does not exist reads
\* as the empty text.
InstallRead(content) ==
    /\ hookCall = NoCall
    /\ hookHistory.installs < MaxInstalls
    /\ hookHistory.uninstalls = 0
    /\ hookCall' = [op |-> "install", content |-> content,
                    existingContent |->
                        IF hookFile.exists THEN hookFile.content ELSE <<>>]
    /\ UNCHANGED <<hookFile, hookHistory, besidesHook>>

\* installHook from there: writeHook.
InstallWrite ==
    /\ hookCall.op = "install"
    /\ hookFile' = HookFile(installedContent(hookCall.content,
                                         hookCall.existingContent))
    /\ hookCall' = NoCall
    /\ hookHistory' = [hookHistory EXCEPT !.installs = @ + 1]
    /\ UNCHANGED besidesHook

\* uninstallHook up to the end of readFile; readFile of a file that does
\* not exist throws and the catch block ends the call.
UninstallRead ==
    /\ hookCall = NoCall
    /\ hookHistory.uninstalls = 0
    /\ IF hookFile.exists
       THEN /\ hookCall' = [op |-> "uninstall", content |-> hookFile.content]
            /\ UNCHANGED hookHistory
       ELSE /\ hookHistory' = [hookHistory EXCEPT !.uninstalls = @ + 1]
            /\ UNCHANGED hookCall
    /\ UNCHANGED <<hookFile, besidesHook>>

\* uninstallHook from there: return, writeFile or unlink.
UninstallWrite ==
    /\ hookCall.op = "uninstall"
    /\ hookFile' = IF indexOf(hookCall.content, MarkerCodeGateway, 1) = 0
                   THEN hookFile
                   ELSE uninstalledFile(hookCall.content)
    /\ hookCall' = NoCall
    /\ hookHistory' = [hookHistory EXCEPT !.uninstalls = @ + 1]
    /\ UNCHANGED besidesHook

HookNext ==
    \/ \E content \in HookContents : InstallRead(content)
    \/ InstallWrite
    \/ UninstallRead
    \/ UninstallWrite

HookSpec == HookInit /\ [][HookNext]_vars

\* C28: one or more installHook calls followed by one uninstallHook leave a
\* hook file that existed before, and was not a CodeGateway hook, with its
\* original content; when no hook existed, they leave no hook file.
C28_UninstallRestores ==
    /\ hookCall = NoCall
    /\ hookHistory.installs >= 1
    /\ hookHistory.uninstalls = 1
    => hookFile = hookHistory.original


-----------------------------------------------------------------------------
(* FileAnalyzer: debounced and immediate analysis of one document          *)

\* The entry of a Map for the URI of the document.
Unset == [set |-> FALSE]
Entry(value) == [set |-> TRUE, value |-> value]

\* Number of setTimeout calls, and of doAnalyze calls.
MaxTimers == 3
MaxAnalyses == 3

FileInit ==
    /\ Constructed
    /\ BesidesFileIdle
    /\ debounceTimers = Unset
    /\ analysisCache = Unset
    /\ diagnostics = Unset
    /\ timers = <<>>
    /\ analyses = <<>>
    /\ fileHistory = [cleared |-> FALSE, since |-> FALSE, disposed |-> FALSE]

\* clearTimeout(timer): a pending timer will not fire; a timer that has
\* fired or was cleared stays as it is.
clearTimeout(list, timer) ==
    IF list[timer] = "pending" THEN [list EXCEPT ![timer] = "cleared"]
    ELSE list

\* analyzeDocument: the timer recorded for the URI is cleared, a new one is
\* set and recorded.
analyzeDocument ==
    /\ ~fileHistory.disposed
    /\ Len(timers) < MaxTimers
    /\ timers' =
          Append(IF debounceTimers.set
                 THEN clearTimeout(timers, debounceTimers.value)
                 ELSE timers, "pending")
    /\ debounceTimers' = Entry(Len(timers) + 1)
    /\ fileHistory' = [fileHistory EXCEPT !.since = TRUE]
    /\ UNCHANGED <<analysisCache, diagnostics, analyses, besidesFile>>

\* doAnalyze up to its await: the text of the document is passed to
\* analyzeFile.  timer is the timer whose callback awaits the call, 0 for
\* analyzeDocumentNow.
doAnalyze(timer) ==
    Append(analyses, [timer |-> timer, pc |-> "awaiting"])

\* The callback of a timer starts: await this.doAnalyze(document).
TimerFires(timer) ==
    /\ timer \in 1..Len(timers)
    /\ timers[timer] = "pending"
    /\ Len(analyses) < MaxAnalyses
    /\ timers' = [timers EXCEPT ![timer] = "fired"]
    /\ analyses' = doAnalyze(timer)
    /\ UNCHANGED <<debounceTimers, analysisCache, diagnostics, fileHistory,
                   besidesFile>>

\* analyzeDocumentNow: the timer recorded is cleared and its entry deleted,
\* then doAnalyze is called.
analyzeDocumentNow ==
    /\ ~fileHistory.disposed
    /\ Len(analyses) < MaxAnalyses
    /\ timers' = IF debounceTimers.set
                 THEN clearTimeout(timers, debounceTimers.value)
                 ELSE timers
    /\ debounceTimers' = Unset
    /\ analyses' = doAnalyze(0)
    /\ fileHistory' = [fileHistory EXCEPT !.since = TRUE]
    /\ UNCHANGED <<analysisCache, diagnostics, besidesFile>>

\* The promise of analyzeFile settles and doAnalyze goes on: the result is
\* cached and its diagnostics published; the callback of a timer goes on
\* with debounceTimers.delete(uri).
AnalysisCompletes(a) ==
    /\ a \in 1..Len(analyses)
    /\ analyses[a].pc = "awaiting"
    /\ analyses' = [analyses EXCEPT ![a].pc = "done"]
    /\ analysisCache' = Entry(a)
    /\ diagnostics' = Entry(a)
    /\ debounceTimers' = IF analyses[a].timer # 0 THEN Unset
                         ELSE debounceTimers
    /\ UNCHANGED <<timers, fileHistory, besidesFile>>

\* clearAnalysis: the cache entry is deleted and the diagnostics cleared.
clearAnalysis ==
    /\ ~fileHistory.disposed
    /\ analysisCache' = Unset
    /\ diagnostics' = Unset
    /\ fileHistory' = [fileHistory EXCEPT !.cleared = TRUE, !.since = FALSE]
    /\ UNCHANGED <<debounceTimers, timers, analyses, besidesFile>>

\* dispose: the timers recorded are cleared and the map emptied.
disposeFileAnalyzer ==
    /\ ~fileHistory.disposed
    /\ timers' = IF debounceTimers.set
                 THEN clearTimeout(timers, debounceTimers.value)
                 ELSE timers
    /\ debounceTimers' = Unset
    /\ fileHistory' = [fileHistory EXCEPT !.disposed = TRUE]
    /\ UNCHANGED <<analysisCache, diagnostics, analyses, besidesFile>>

FileNext ==
    \/ analyzeDocument
    \/ \E timer \in 1..MaxTimers : TimerFires(timer)
    \/ analyzeDocumentNow
    \/ \E a \in 1..MaxAnalyses : AnalysisCompletes(a)
    \/ clearAnalysis
    \/ disposeFileAnalyzer

FileSpec == FileInit /\ [][FileNext]_vars

AllFinished ==
    /\ \A a \in 1..Len(analyses) : analyses[a].pc = "done"
    /\ \A timer \in 1..Len(timers) : timers[timer] # "pending"

\* C29: once the analyses of the document in flight have finished, the
\* cached result and the diagnostics are those of the analysis that started
\* last, and a clearAnalysis with nothing scheduled after it leaves the
\* cache and the diagnostics empty whatever was scheduled before it.
C29_LatestResultKept ==
    /\ AllFinished /\ analyses # <<>> /\ ~fileHistory.cleared =>
          /\ analysisCache = Entry(Len(analyses))
          /\ diagnostics = Entry(Len(analyses))
    /\ fileHistory.cleared /\ ~fileHistory.since =>
          /\ analysisCache = Unset
          /\ diagnostics = Unset


PendingTimers == {timer \in 1..Len(timers) : timers[timer] = "pending"}

====
